---- MODULE Spec2Model ----
(***************************************************************************)
(* Job state machine of the video stitcher backend: the persisted match    *)
(* records, the in-memory maps of routers/processing.py, the request       *)
(* handlers, the transcode worker thread with its encoder process, and     *)
(* the startup recovery of main.py.                                        *)
(*                                                                         *)
(* Scheduling.  The handlers of routers/processing.py are `async def`:     *)
(* they run on the single event loop, one at a time, and give the loop up  *)
(* only at an `await`.  The variable `loop` holds the handler that owns    *)
(* the loop.  The transcode worker is a threading.Thread and update_match  *)
(* is a plain `def` handler run in the thread pool: their steps interleave *)
(* with everything.                                                        *)
(***************************************************************************)
EXTENDS Integers, Sequences, FiniteSets, TLC

\* ---------------------------------------------------------------- bounds
MaxWorkers == 2
MaxRequests == 2

\* ---------------------------------------------------------------- values
Matches == {"m1", "m2"}
Workers == 1..MaxWorkers

None    == "None"
NoMatch == [absent |-> TRUE]
NoPid   == <<0, 0>>

active_statuses == {"transcoding", "calibrating"}

Statuses == {"pending", "transcoding", "calibrating", "ready", "error"}

HwEncoder == "h264_nvenc"
Encoders  == {HwEncoder, "libx264"}

\* messages of the exceptions that reach _transcode_background
MsgCancelled == "Transcoding failed: Transcoding cancelled by user"
MsgStacking  == "Transcoding failed: Video stacking failed: FFmpeg stderr"
MsgNoOutput  == "Transcoding failed: Output file was not created or is empty"
MsgSync      == "Transcoding failed: Audio extraction or sync failed"

\* `"cancelled" in str(e).lower()`
IsCancelMessage(msg) == msg = MsgCancelled

\* ------------------------------------------------------------ the record
\* A persisted match, reduced to the fields the handlers read or write.
Match(st, sp, ec, em, s, off, l, r, cal) ==
    [status |-> st, step |-> sp, error_code |-> ec, error_message |-> em,
     src |-> s, offset_seconds |-> off, left_videos |-> l, right_videos |-> r,
     params |-> cal,
     num_matches |-> IF cal = "default" THEN None ELSE 9,
     confidence  |-> IF cal = "default" THEN None ELSE 180]

\* MatchModel.update_processing(**kwargs): the named processing fields take
\* the given values (None included), the others keep theirs.
update_processing(rec, kw) ==
    [f \in DOMAIN rec |->
        IF f \in DOMAIN kw THEN kw[f] ELSE rec[f]]

\* MatchModel.get_status()
get_status(rec) == rec.status

\* Records a previous run of the program can have left on disk.
InitRecords ==
    { Match("pending", None, None, None, None, None, l, r, "default") :
          l \in 0..1, r \in 0..1 }
    \cup
    { Match("transcoding", "transcoding", None, None, None, None, 1, 1, "default"),
      Match("pending", "awaiting_frames", None, None, "videos/id.mp4", "offset", 1, 1, "default"),
      Match("calibrating", "feature_matching", None, None, "videos/id.mp4", "offset", 1, 1, "default"),
      Match("error", None, "INTERRUPTED", "Processing was interrupted. Please retry.",
            None, None, 1, 1, "default"),
      Match("ready", "complete", None, None, "videos/id.mp4", "offset", 1, 1, "calibrated") }

\* ------------------------------------------------------- feature matching
\* services/feature_matching.py.  A pair of frames is described by what the
\* OpenCV calls make of it: whether both images decode and have the same
\* shape, the grayscale standard deviations (in hundredths), whether
\* descriptors and keypoints were found, the number of matches that pass the
\* ratio test (sorted by distance: match i is the i-th best), how many of
\* them lie in the overlap region (the matches 1..overlap), the RANSAC mask
\* (`mask` is FALSE for None; otherwise it is TRUE for the first `inliers`
\* points it is given) and whether the optimizer converges on the resulting
\* points.
MaxGood == 32             \* most matches that pass the ratio test

BlankThreshold  == 10     \* 0.1, in hundredths
RansacMinPoints == 8      \* `if len(pts1) >= 8`
FallbackBest    == 30     \* `good_matches[:30]`
ConfidenceFull  == 50     \* `len(filtered_matches) / 50.0`
DefaultMinMatches == 8    \* `min_matches: int = 8`

Min(a, b) == IF a < b THEN a ELSE b

FramePair(dec, shape, ls, rs, des, kp, good, overlap, mask, inliers, conv) ==
    [decodable |-> dec, same_shape |-> shape, left_std |-> ls, right_std |-> rs,
     descriptors |-> des, keypoints |-> kp, good |-> good, overlap |-> overlap,
     mask |-> mask, inliers |-> inliers, converges |-> conv]

ValueError(msg, count) == [raised |-> "ValueError", message |-> msg, count |-> count]

MsgBlank == "Images appear to be blank"
MsgInsufficient == "Insufficient matches after RANSAC"

\* IsBlank looking at the left frame only
IsBlankLeftOnly(f) == f.left_std < BlankThreshold

\* `if left_std < 0.1 or right_std < 0.1`
IsBlank(f) == f.left_std < BlankThreshold \/ f.right_std < BlankThreshold

\* `pts1[mask]`, `[filtered_matches[i] for i, m in enumerate(mask) if m]`
ApplyMask(seq, inliers) == SubSeq(seq, 1, Min(inliers, Len(seq)))

\* the lists pts1 and filtered_matches after the overlap filter, the
\* 30-best fallback and RANSAC
Correspondences(f, min_matches) ==
    LET good_matches == [i \in 1..f.good |-> i]
        overlapping  == SelectSeq(good_matches, LAMBDA i : i <= f.overlap)
        filtered     == IF Len(overlapping) < min_matches
                        THEN SubSeq(good_matches, 1, Min(FallbackBest, f.good))
                        ELSE overlapping
        ransac       == Len(filtered) >= RansacMinPoints /\ f.mask
    IN  [pts1 |-> IF ransac THEN ApplyMask(filtered, f.inliers) ELSE filtered,
         filtered_matches |-> IF ransac THEN ApplyMask(filtered, f.inliers) ELSE filtered]

\* EnoughAfterRansac that accepts any count
EnoughAfterRansacAny(pts1, min_matches) == TRUE

\* the negation of `if len(pts1) < min_matches: raise`
EnoughAfterRansac(pts1, min_matches) == Len(pts1) >= min_matches

\* match_features(img_left, img_right, method, min_matches)
match_features(f, min_matches) ==
    IF ~f.decodable THEN ValueError("Invalid input images", 0)
    ELSE IF ~f.same_shape THEN ValueError("Images must have the same dimensions", 0)
    ELSE IF IsBlank(f) THEN ValueError(MsgBlank, 0)
    ELSE IF ~f.descriptors THEN ValueError("Failed to detect features", 0)
    ELSE IF ~f.keypoints THEN ValueError("No keypoints found", 0)
    ELSE IF f.good < min_matches THEN ValueError("Insufficient matches found", f.good)
    ELSE
      LET c == Correspondences(f, min_matches) IN
      IF ~EnoughAfterRansac(c.pts1, min_matches)
      THEN ValueError(MsgInsufficient, Len(c.pts1))
      ELSE [raised |-> None,
            left_points |-> Len(c.pts1), right_points |-> Len(c.pts1),
            num_matches |-> Len(c.filtered_matches),
            confidence |-> Min(1000, (Len(c.filtered_matches) * 1000) \div ConfidenceFull)]

\* ---------------------------------------------------- position optimizer
\* optimize_position returning the parameters although minimize failed
OptimizePositionUnchecked(left_points, right_points, converges) ==
    IF left_points = 0 \/ right_points = 0
    THEN ValueError("Point lists cannot be empty", 0)
    ELSE IF left_points # right_points
    THEN ValueError("Point lists must have equal length", 0)
    ELSE [raised |-> None, params |-> "optimized"]

\* services/position_optimization.py, optimize_position: the point lists by
\* their lengths, `result.success` of scipy's minimize as an input
optimize_position(left_points, right_points, converges) ==
    IF left_points = 0 \/ right_points = 0
    THEN ValueError("Point lists cannot be empty", 0)
    ELSE IF left_points # right_points
    THEN ValueError("Point lists must have equal length", 0)
    ELSE IF ~converges
    THEN ValueError("Position optimization failed", 0)
    ELSE [raised |-> None, params |-> "optimized"]

\* ------------------------------------------------------------- variables
VARIABLES
    store,               \* FileMatchStore: match id -> record or NoMatch
    store0,              \* the store as the process found it at start
    phase,               \* "startup" (lifespan before yield) or "serving"
    todo,                \* lifespan: matches of list_all() not yet visited
    progress_cache,      \* _progress_cache: ids with an entry
    cancellation_flags,  \* _cancellation_flags: ids whose flag is True
    ffmpeg_processes,    \* _ffmpeg_processes: id -> pid or None
    worker,              \* the _transcode_background threads
    proc,                \* the encoder process of each worker
    outfile,             \* VIDEOS_DIR/<id>.mp4: "missing", "empty" or "ok"
    loop,                \* the handler that owns the event loop
    calib,               \* the process_match_with_frames call in flight
    upd,                 \* the update_match call in the thread pool
    response,            \* the last request received, with the code of its
                         \* response once sent (0 until then)
    requests,            \* number of requests received since the initial state
    call,                \* a call of one of the services' functions: its
                         \* name, its arguments and, once applied, its result
    profiles,            \* the lens profile stores: the official profiles,
                         \* the files of the user store, the favorite ids
    live                 \* routers/live.py: _live_process, _live_lock, the
                         \* FFmpeg processes alive, the handlers' threads

vars == <<store, store0, phase, todo, progress_cache, cancellation_flags,
          ffmpeg_processes, worker, proc, outfile, loop, calib, upd, response,
          requests, call, profiles, live>>

\* A worker thread: pc is its position in _transcode_background, snap its
\* bg_match_data, attempts the encoders it launched so far.  cancelReq
\* records that cancel was requested for its job while it was running.
IdleWorker ==
    [pc |-> "idle", m |-> None, snap |-> NoMatch, encoders_to_try |-> <<>>,
     attempts |-> <<>>, cancelReq |-> FALSE]

\* loop: hit records that a transcode worker was running for the job when
\* the cancel request arrived
LoopFree  == [op |-> "free", pc |-> None, m |-> None, snap |-> NoMatch, pid |-> NoPid,
              hit |-> FALSE]
NoFrames  == [absent |-> TRUE]
NoResult  == [absent |-> TRUE]
\* calib: snap is the handler's match_data, before the record it read,
\* frames the submitted pair, result the return value of match_features
CalibIdle == [pc |-> "idle", m |-> None, snap |-> NoMatch, before |-> NoMatch,
              frames |-> NoFrames, result |-> NoResult]
UpdIdle   == [pc |-> "idle", m |-> None, snap |-> NoMatch]
NoResponse == [op |-> "none", m |-> None, code |-> 0]
NoCall    == [fn |-> "none"]
\* no official profile, no user profile, no favorite
NoProfiles == [official |-> {}, user |-> {}, favorites |-> {}]

\* routers/live.py at import: _live_process = None, the lock free, no request
MaxLiveThreads == 2
MaxLiveRequests == 4
LiveThreads == 1..MaxLiveThreads
NoProcess == 0
NoLive ==
    [process |-> NoProcess, lock |-> 0, alive |-> {}, spawned |-> 0,
     thread |-> [t \in LiveThreads |-> "idle"], requests |-> 0,
     answer |-> [op |-> "none", running |-> FALSE, message |-> None, code |-> 0]]

Init ==
    /\ store \in [Matches -> InitRecords \cup {NoMatch}]
    /\ store0 = store
    /\ phase = "startup"
    /\ todo = {m \in Matches : store[m] # NoMatch}
    /\ progress_cache = {}
    /\ cancellation_flags = {}
    /\ ffmpeg_processes = [m \in Matches |-> NoPid]
    /\ worker = [w \in Workers |-> IdleWorker]
    /\ proc = [w \in Workers |-> "none"]
    /\ outfile = [m \in Matches |-> IF store[m] # NoMatch /\ store[m].src # None
                                    THEN "ok" ELSE "missing"]
    /\ loop = LoopFree
    /\ calib = CalibIdle
    /\ upd = UpdIdle
    /\ response = NoResponse
    /\ requests = 0
    /\ call = NoCall
    /\ profiles = NoProfiles
    /\ live = NoLive

\* ------------------------------------------------------ startup recovery
\* Recover storing the interrupted record without its src
RecoverDropsSrc(rec) ==
    IF rec.status \in active_statuses
    THEN [update_processing(rec, [status |-> "error", step |-> None,
                                  error_code |-> "INTERRUPTED",
                                  error_message |-> "Processing was interrupted. Please retry."])
            EXCEPT !.src = None]
    ELSE rec

\* Recover with `active_statuses` short of "calibrating"
RecoverTranscodingOnly(rec) ==
    IF rec.status = "transcoding"
    THEN update_processing(rec, [status |-> "error", step |-> None,
                                 error_code |-> "INTERRUPTED",
                                 error_message |-> "Processing was interrupted. Please retry."])
    ELSE rec

\* lifespan: one iteration of `for match in matches`
Recover(rec) ==
    IF rec.status \in active_statuses
    THEN update_processing(rec, [status |-> "error", step |-> None,
                                 error_code |-> "INTERRUPTED",
                                 error_message |-> "Processing was interrupted. Please retry."])
    ELSE rec

LifespanVisit(m) ==
    /\ phase = "startup"
    /\ m \in todo
    /\ store' = [store EXCEPT ![m] = Recover(store[m])]
    /\ todo' = todo \ {m}
    /\ UNCHANGED <<call, profiles, live, store0, phase, progress_cache, cancellation_flags,
                   ffmpeg_processes, worker, proc, outfile, loop, calib, upd, response, requests>>

\* lifespan: the loop is over, `yield` - the server starts accepting requests
LifespanYield ==
    /\ phase = "startup"
    /\ todo = {}
    /\ phase' = "serving"
    /\ UNCHANGED <<call, profiles, live, store, store0, todo, progress_cache, cancellation_flags,
                   ffmpeg_processes, worker, proc, outfile, loop, calib, upd, response, requests>>

\* ---------------------------------------------------------- start_transcode
LoopIdle == phase = "serving" /\ loop = LoopFree

\* a new request arrives (at most MaxRequests of them)
Receive == requests < MaxRequests /\ requests' = requests + 1

Running(w) == worker[w].pc # "idle"

FreeSlot == CHOOSE w \in Workers : worker[w].pc = "idle" /\ \A v \in Workers : v < w => worker[v].pc # "idle"

\* TranscodeRejection with the video check on the left side only
TranscodeRejectionLeftOnly(m) ==
    IF store[m] = NoMatch THEN 404
    ELSE IF store[m].left_videos = 0 THEN 400
    ELSE 0

\* transcode_match_endpoint: the checks that reject the request
TranscodeRejection(m) ==
    IF store[m] = NoMatch THEN 404
    ELSE IF store[m].left_videos = 0 \/ store[m].right_videos = 0 THEN 400
    ELSE 0

TranscodeReject(m) ==
    /\ LoopIdle
    /\ Receive
    /\ TranscodeRejection(m) # 0
    /\ response' = [op |-> "transcode", m |-> m, code |-> TranscodeRejection(m)]
    /\ UNCHANGED <<call, profiles, live, store, store0, phase, todo, progress_cache, cancellation_flags,
                   ffmpeg_processes, worker, proc, outfile, loop, calib, upd>>

\* transcode_match_endpoint: check_ffmpeg() raises
TranscodeNoFfmpeg(m) ==
    /\ LoopIdle
    /\ Receive
    /\ TranscodeRejection(m) = 0
    /\ response' = [op |-> "transcode", m |-> m, code |-> 500]
    /\ UNCHANGED <<call, profiles, live, store, store0, phase, todo, progress_cache, cancellation_flags,
                   ffmpeg_processes, worker, proc, outfile, loop, calib, upd>>

\* transcode_match_endpoint: status write, cache entry, thread start
TranscodeStart(m) ==
    /\ LoopIdle
    /\ Receive
    /\ TranscodeRejection(m) = 0
    /\ \E w \in Workers : worker[w].pc = "idle"
    /\ store' = [store EXCEPT ![m] =
                    update_processing(store[m], [status |-> "transcoding", step |-> "transcoding"])]
    /\ progress_cache' = progress_cache \cup {m}
    /\ worker' = [worker EXCEPT ![FreeSlot] = [IdleWorker EXCEPT !.pc = "start", !.m = m]]
    /\ response' = [op |-> "transcode", m |-> m, code |-> 200]
    /\ UNCHANGED <<call, profiles, live, store0, phase, todo, cancellation_flags, ffmpeg_processes,
                   proc, outfile, loop, calib, upd>>

\* ------------------------------------------------------ the worker thread
\* The steps of _transcode_background are cut where a step of another
\* thread in between can change what the worker does next: at its start, at
\* the call of transcode_and_stack, and at every turn of the supervision
\* loop of _stack_videos.

\* the `del` of the worker: progress cache, cancellation flag, pid
ClearCache(m) == progress_cache' = progress_cache \ {m}
ClearFlag(m)  == cancellation_flags' = cancellation_flags \ {m}
ClearPid(m)   == ffmpeg_processes' = [ffmpeg_processes EXCEPT ![m] = NoPid]

\* the thread ends
Exit(w) ==
    /\ worker' = [worker EXCEPT ![w] = IdleWorker]
    /\ proc' = [proc EXCEPT ![w] = "none"]

\* the record written when a cancellation is seen
CancelledRecord(snap) == update_processing(snap, [status |-> "pending", step |-> None])

\* bg_store.get_by_id and "Check for cancellation before starting"
WorkerBegin(w) ==
    /\ worker[w].pc = "start"
    /\ LET m == worker[w].m IN
       IF store[m] = NoMatch
       THEN /\ Exit(w)
            /\ UNCHANGED <<store, progress_cache, cancellation_flags>>
       ELSE IF m \in cancellation_flags
       THEN /\ store' = [store EXCEPT ![m] = CancelledRecord(store[m])]
            /\ ClearCache(m)
            /\ ClearFlag(m)
            /\ Exit(w)
       ELSE /\ worker' = [worker EXCEPT ![w].pc = "sync", ![w].snap = store[m]]
            /\ UNCHANGED <<store, progress_cache, cancellation_flags, proc>>
    /\ UNCHANGED <<call, profiles, live, store0, phase, todo, ffmpeg_processes, outfile, loop, calib, upd,
                   response, requests>>

\* the record written by `except RuntimeError` / `except Exception`
FailureRecord(snap, msg) ==
    IF IsCancelMessage(msg)
    THEN CancelledRecord(snap)
    ELSE update_processing(snap, [status |-> "error", step |-> None, error_message |-> msg])

\* transcode_and_stack raised: its `except` removes the output file and
\* re-raises RuntimeError("Transcoding failed: ..."); _transcode_background
\* writes the record and clears the three maps
Fail(w, msg) ==
    LET m == worker[w].m IN
    /\ outfile' = [outfile EXCEPT ![m] = "missing"]
    /\ store' = [store EXCEPT ![m] = FailureRecord(worker[w].snap, msg)]
    /\ ClearCache(m)
    /\ ClearFlag(m)
    /\ ClearPid(m)
    /\ Exit(w)

\* one turn of `for enc in encoders_to_try`: the old output is removed, the
\* process is started and process_callback stores its pid
Launch(w, encoders) ==
    LET m == worker[w].m IN
    /\ outfile' = [outfile EXCEPT ![m] = "missing"]
    /\ proc' = [proc EXCEPT ![w] = "running"]
    /\ worker' = [worker EXCEPT ![w].pc = "poll",
                    ![w].encoders_to_try = Tail(encoders),
                    ![w].attempts = Append(worker[w].attempts, Head(encoders))]
    /\ ffmpeg_processes' = [ffmpeg_processes EXCEPT ![m] = <<w, Len(worker[w].attempts) + 1>>]

\* EncodersToTry without the software fallback
EncodersToTryNoFallback(encoder) == <<encoder>>

\* `encoders_to_try` of _stack_videos
EncodersToTry(encoder) ==
    IF encoder # "libx264" THEN <<encoder, "libx264">> ELSE <<"libx264">>

\* transcode_and_stack up to the first encoder process: check_ffmpeg, the
\* input files, audio extraction and _compute_offset raise or publish their
\* progress, _stack_videos picks the encoder and launches it
WorkerSync(w) ==
    /\ worker[w].pc = "sync"
    /\ \/ /\ Fail(w, MsgSync)
       \/ /\ \E encoder \in Encoders : Launch(w, EncodersToTry(encoder))
          /\ progress_cache' = progress_cache \cup {worker[w].m}
          /\ UNCHANGED <<store, cancellation_flags>>
    /\ UNCHANGED <<call, profiles, live, store0, phase, todo, loop, calib, upd, response, requests>>

\* the encoder process ends by itself
ProcExit(w) ==
    /\ proc[w] = "running"
    /\ \/ /\ proc' = [proc EXCEPT ![w] = "exit0"]
          /\ \E f \in {"missing", "empty", "ok"} :
                outfile' = [outfile EXCEPT ![worker[w].m] = f]
       \/ /\ proc' = [proc EXCEPT ![w] = "exit1"]
          /\ UNCHANGED outfile
    /\ UNCHANGED <<call, profiles, live, store, store0, phase, todo, progress_cache, cancellation_flags,
                   ffmpeg_processes, worker, loop, calib, upd, response, requests>>

\* OutputVerified without the size check
OutputVerifiedExistsOnly(f) == f # "missing"

\* the output check of _stack_videos: the file exists and is not empty
OutputVerified(f) == f = "ok"

\* SuccessRecord without the assignment of src
SuccessRecordNoSrc(snap) ==
    [update_processing(snap, [status |-> "pending", step |-> "awaiting_frames"])
        EXCEPT !.offset_seconds = "offset"]

\* the record written on success: src, processing, transcode metrics
SuccessRecord(snap) ==
    [update_processing(snap, [status |-> "pending", step |-> "awaiting_frames"])
        EXCEPT !.src = "videos/id.mp4", !.offset_seconds = "offset"]

\* _stack_videos returned: "Check for cancellation after transcoding", then
\* the success write; the three maps are cleared either way
Succeed(w) ==
    LET m == worker[w].m IN
    /\ store' = [store EXCEPT ![m] =
                    IF m \in cancellation_flags THEN CancelledRecord(worker[w].snap)
                                                ELSE SuccessRecord(worker[w].snap)]
    /\ ClearCache(m)
    /\ ClearFlag(m)
    /\ ClearPid(m)
    /\ Exit(w)
    /\ UNCHANGED outfile

\* a turn of `while process.poll() is None:` while the process runs: the
\* cancellation check, then a progress block is published or nothing is read
WorkerPoll(w) ==
    /\ worker[w].pc = "poll"
    /\ proc[w] = "running"
    /\ IF worker[w].m \in cancellation_flags
       THEN \* terminate, wait, kill; RuntimeError("Transcoding cancelled by user")
            Fail(w, MsgCancelled)
       ELSE /\ \/ progress_cache' = progress_cache \cup {worker[w].m}
               \/ UNCHANGED progress_cache
            /\ UNCHANGED <<store, cancellation_flags, ffmpeg_processes, worker, proc, outfile>>
    /\ UNCHANGED <<call, profiles, live, store0, phase, todo, loop, calib, upd, response, requests>>

\* the loop ends because the process has exited: return code, fallback,
\* output check
WorkerExited(w) ==
    /\ worker[w].pc = "poll"
    /\ proc[w] # "running"
    /\ IF proc[w] = "exit1"
       THEN \* CalledProcessError: `continue` after a hardware encoder
            IF worker[w].attempts[Len(worker[w].attempts)] # "libx264"
               /\ worker[w].encoders_to_try # <<>>
            THEN /\ Launch(w, worker[w].encoders_to_try)
                 /\ UNCHANGED <<store, progress_cache, cancellation_flags>>
            ELSE Fail(w, MsgStacking)
       ELSE IF OutputVerified(outfile[worker[w].m])
            THEN Succeed(w)
            ELSE Fail(w, MsgNoOutput)
    /\ UNCHANGED <<call, profiles, live, store0, phase, todo, loop, calib, upd, response, requests>>

WorkerStep(w) ==
    \/ WorkerBegin(w)
    \/ WorkerSync(w)
    \/ WorkerPoll(w)
    \/ WorkerExited(w)

\* ------------------------------------------------------------------ cancel
\* the process a pid names is still alive
Alive(pid) ==
    /\ pid # NoPid
    /\ proc[pid[1]] = "running"
    /\ Len(worker[pid[1]].attempts) = pid[2]

\* CancelNotFound with the flag set before the lookup
CancelNotFoundSetsFlag(m) ==
    /\ LoopIdle
    /\ Receive
    /\ store[m] = NoMatch
    /\ cancellation_flags' = cancellation_flags \cup {m}
    /\ response' = [op |-> "cancel", m |-> m, code |-> 404]
    /\ UNCHANGED <<call, profiles, live, store, store0, phase, todo, progress_cache,
                   ffmpeg_processes, worker, proc, outfile, loop, calib, upd>>

\* cancel_processing: unknown id
CancelNotFound(m) ==
    /\ LoopIdle
    /\ Receive
    /\ store[m] = NoMatch
    /\ response' = [op |-> "cancel", m |-> m, code |-> 404]
    /\ UNCHANGED <<call, profiles, live, store, store0, phase, todo, progress_cache, cancellation_flags,
                   ffmpeg_processes, worker, proc, outfile, loop, calib, upd>>

\* cancel_processing: get_by_id and `_cancellation_flags[match_id] = True`
CancelBegin(m) ==
    /\ LoopIdle
    /\ Receive
    /\ store[m] # NoMatch
    /\ cancellation_flags' = cancellation_flags \cup {m}
    /\ loop' = [op |-> "cancel", pc |-> "signal", m |-> m, snap |-> store[m], pid |-> NoPid,
                hit |-> \E w \in Workers : Running(w) /\ worker[w].m = m]
    /\ worker' = [w \in Workers |->
                    IF Running(w) /\ worker[w].m = m
                    THEN [worker[w] EXCEPT !.cancelReq = TRUE] ELSE worker[w]]
    /\ response' = [op |-> "cancel", m |-> m, code |-> 0]
    /\ UNCHANGED <<call, profiles, live, store, store0, phase, todo, progress_cache, ffmpeg_processes,
                   proc, outfile, calib, upd>>

\* cancel_processing: the status write from the handler's snapshot, the
\* cache entry, the response
CancelEnd ==
    /\ store' = IF get_status(loop.snap) \in {"transcoding", "calibrating"}
                THEN [store EXCEPT ![loop.m] =
                        update_processing(loop.snap, [status |-> "pending", step |-> None])]
                ELSE store
    /\ progress_cache' = progress_cache \ {loop.m}
    /\ response' = [op |-> "cancel", m |-> loop.m, code |-> 200]
    /\ loop' = LoopFree

\* cancel_processing: `if match_id in _ffmpeg_processes` and the SIGTERM;
\* the process ends at once or is still alive when time.sleep(0.5) returns.
\* Without a pid the handler goes on to its end.
CancelSignal ==
    /\ loop.op = "cancel" /\ loop.pc = "signal"
    /\ LET pid == ffmpeg_processes[loop.m] IN
       IF pid = NoPid
       THEN /\ CancelEnd
            /\ UNCHANGED <<proc, ffmpeg_processes>>
       ELSE /\ loop' = [loop EXCEPT !.pc = "kill", !.pid = pid]
            /\ \/ UNCHANGED proc
               \/ /\ Alive(pid)
                  /\ proc' = [proc EXCEPT ![pid[1]] = "exit1"]
            /\ UNCHANGED <<store, progress_cache, response, ffmpeg_processes>>
    /\ UNCHANGED <<call, profiles, live, store0, phase, todo, cancellation_flags, worker, outfile, calib,
                   upd, requests>>

\* cancel_processing after the sleep: SIGKILL if the pid still exists,
\* `_ffmpeg_processes.pop(match_id, None)`, then the end of the handler
CancelKill ==
    /\ loop.op = "cancel" /\ loop.pc = "kill"
    /\ proc' = IF Alive(loop.pid) THEN [proc EXCEPT ![loop.pid[1]] = "exit1"] ELSE proc
    /\ ffmpeg_processes' = [ffmpeg_processes EXCEPT ![loop.m] = NoPid]
    /\ CancelEnd
    /\ UNCHANGED <<call, profiles, live, store0, phase, todo, cancellation_flags, worker, outfile, calib,
                   upd, requests>>

\* ------------------------------------------------------- get_live_status
\* get_processing_status: the stale detection and its write
IsStale(m) ==
    /\ store[m].status \in active_statuses
    /\ m \notin progress_cache
    /\ ffmpeg_processes[m] = NoPid

StatusPoll(m) ==
    /\ LoopIdle
    /\ Receive
    /\ IF store[m] = NoMatch
       THEN /\ response' = [op |-> "status", m |-> m, code |-> 404]
            /\ UNCHANGED store
       ELSE /\ response' = [op |-> "status", m |-> m, code |-> 200]
            /\ store' = IF IsStale(m)
                        THEN [store EXCEPT ![m] =
                               update_processing(store[m],
                                  [status |-> "error", step |-> None,
                                   error_code |-> "INTERRUPTED",
                                   error_message |-> "Processing was interrupted. Please retry."])]
                        ELSE store
    /\ UNCHANGED <<call, profiles, live, store0, phase, todo, progress_cache, cancellation_flags,
                   ffmpeg_processes, worker, proc, outfile, loop, calib, upd>>

\* ------------------------------------------------ submit_calibration_frames
\* process_match_with_frames: unknown id
CalibNotFound(m) ==
    /\ LoopIdle
    /\ Receive
    /\ calib.pc = "idle"
    /\ store[m] = NoMatch
    /\ response' = [op |-> "calibrate", m |-> m, code |-> 404]
    /\ UNCHANGED <<call, profiles, live, store, store0, phase, todo, progress_cache, cancellation_flags,
                   ffmpeg_processes, worker, proc, outfile, loop, calib, upd>>

\* the frame pairs a client submits: one that does not decode, one with a
\* blank right frame, one with too few matches, and two that match well, of
\* which the optimizer converges on the first only
SubmittedFrames ==
    { FramePair(FALSE, TRUE, 50, 50, TRUE, TRUE, 12, 10, TRUE, 9, TRUE),
      FramePair(TRUE, TRUE, 50, 0, TRUE, TRUE, 12, 10, TRUE, 9, TRUE),
      FramePair(TRUE, TRUE, 50, 50, TRUE, TRUE, 5, 5, FALSE, 0, TRUE),
      FramePair(TRUE, TRUE, 50, 50, TRUE, TRUE, 12, 10, TRUE, 9, TRUE),
      FramePair(TRUE, TRUE, 50, 50, TRUE, TRUE, 12, 10, TRUE, 9, FALSE) }

\* process_match_with_frames: get_by_id, then `await left_frame.read()`
\* gives the event loop up
CalibBegin(m) ==
    /\ LoopIdle
    /\ Receive
    /\ calib.pc = "idle"
    /\ store[m] # NoMatch
    /\ \E f \in SubmittedFrames :
          calib' = [pc |-> "await", m |-> m, snap |-> store[m], before |-> store[m],
                    frames |-> f, result |-> NoResult]
    /\ response' = [op |-> "calibrate", m |-> m, code |-> 0]
    /\ UNCHANGED <<call, profiles, live, store, store0, phase, todo, progress_cache, cancellation_flags,
                   ffmpeg_processes, worker, proc, outfile, loop, upd>>

\* the two `except` clauses: ValueError answers 400 with str(e), any other
\* exception (the HTTPException of the decode check included) answers 500
CalibError(kind, msg) ==
    IF kind = "ValueError"
    THEN [code |-> 400, message |-> msg]
    ELSE [code |-> 500, message |-> "Failed to process frames"]

\* the record the `except` clauses store: match_data with the error
CalibFailureRecord(snap, result, kind, msg) ==
    update_processing(snap,
        [status |-> "error", step |-> None,
         error_message |-> CalibError(kind, msg).message])

CalibFail(kind, msg) ==
    /\ store' = [store EXCEPT ![calib.m] =
                    CalibFailureRecord(calib.snap, calib.result, kind, msg)]
    /\ response' = [op |-> "calibrate", m |-> calib.m, code |-> CalibError(kind, msg).code]
    /\ calib' = CalibIdle
    /\ loop' = LoopFree

\* the handler resumes: the frames are read and decoded; a frame that does
\* not decode raises HTTPException(400) inside the `try`
CalibDecode ==
    /\ LoopIdle
    /\ calib.pc = "await"
    /\ IF ~calib.frames.decodable
       THEN CalibFail("HTTPException", "Failed to decode image data")
       ELSE /\ LET rec == update_processing(calib.snap,
                            [status |-> "calibrating", step |-> "feature_matching"]) IN
               /\ store' = [store EXCEPT ![calib.m] = rec]
               /\ calib' = [calib EXCEPT !.pc = "matching", !.snap = rec]
            /\ loop' = [LoopFree EXCEPT !.op = "calibrate", !.m = calib.m]
            /\ UNCHANGED response
    /\ UNCHANGED <<call, profiles, live, store0, phase, todo, progress_cache, cancellation_flags,
                   ffmpeg_processes, worker, proc, outfile, upd, requests>>

\* the part of match_features that calls into OpenCV's detector, matcher and
\* RANSAC (lines 60-131) is reached: the checks before it passed
ReachesDetector(f) == f.decodable /\ f.same_shape /\ ~IsBlank(f)

\* match_features returns or raises ValueError, or one of its OpenCV calls
\* raises another exception; on return the step becomes "optimizing"
CalibMatch ==
    /\ loop.op = "calibrate"
    /\ calib.pc = "matching"
    /\ \/ /\ ReachesDetector(calib.frames)
          /\ CalibFail("Exception", "cv2.error")
       \/ LET match_result == match_features(calib.frames, DefaultMinMatches) IN
          IF match_result.raised = "ValueError"
          THEN CalibFail("ValueError", match_result.message)
          ELSE /\ LET rec == update_processing(calib.snap, [step |-> "optimizing"]) IN
                  /\ store' = [store EXCEPT ![calib.m] = rec]
                  /\ calib' = [calib EXCEPT !.pc = "optimizing", !.snap = rec,
                                            !.result = match_result]
               /\ UNCHANGED <<loop, response>>
    /\ UNCHANGED <<call, profiles, live, store0, phase, todo, progress_cache, cancellation_flags,
                   ffmpeg_processes, worker, proc, outfile, upd, requests>>

\* the record stored on success: params, num_matches, confidence, `ready`
CalibratedRecord(snap, match_result, params) ==
    [update_processing(snap,
        [status |-> "ready", step |-> "complete",
         error_code |-> None, error_message |-> None])
     EXCEPT !.params = params,
            !.num_matches = match_result.num_matches,
            !.confidence = match_result.confidence]

\* optimize_position returns or raises ValueError, or numpy/scipy raise
\* another exception; on return params and `ready`
CalibOptimize ==
    /\ loop.op = "calibrate"
    /\ calib.pc = "optimizing"
    /\ \/ CalibFail("Exception", "numpy error")
       \/ LET r == optimize_position(calib.result.right_points, calib.result.left_points,
                                     calib.frames.converges) IN
          IF r.raised = "ValueError"
          THEN CalibFail("ValueError", r.message)
          ELSE /\ store' = [store EXCEPT ![calib.m] =
                              CalibratedRecord(calib.snap, calib.result, r.params)]
               /\ response' = [op |-> "calibrate", m |-> calib.m, code |-> 200]
               /\ calib' = CalibIdle
               /\ loop' = LoopFree
    /\ UNCHANGED <<call, profiles, live, store0, phase, todo, progress_cache, cancellation_flags,
                   ffmpeg_processes, worker, proc, outfile, upd, requests>>

\* ------------------------------------------------------------ update_match
\* request bodies: no video field, or a new left_videos list
UpdateBodies ==
    {[left_videos |-> l] : l \in 0..1}
    \cup {[name |-> "renamed", status |-> "ready", src |-> "videos/other.mp4"]}

\* {'processing', 'src', 'params', 'transcode'}, by the record's fields
protected_fields ==
    {"status", "step", "error_code", "error_message", "src", "params", "offset_seconds"}

\* `for key, value in match.items(): if key not in protected_fields: ...`
Merge(existing, body) ==
    [f \in DOMAIN existing |->
        IF f \in DOMAIN body /\ f \notin protected_fields THEN body[f] ELSE existing[f]]

\* update_match: get_by_id
UpdateRead(m) ==
    /\ phase = "serving"
    /\ upd.pc = "idle"
    /\ Receive
    /\ IF store[m] = NoMatch
       THEN /\ response' = [op |-> "update", m |-> m, code |-> 404]
            /\ UNCHANGED upd
       ELSE /\ upd' = [pc |-> "write", m |-> m, snap |-> store[m]]
            /\ response' = [op |-> "update", m |-> m, code |-> 0]
    /\ UNCHANGED <<call, profiles, live, store, store0, phase, todo, progress_cache, cancellation_flags,
                   ffmpeg_processes, worker, proc, outfile, loop, calib>>

\* update_match: the body's unprotected fields are merged into the dump of
\* the record that was read, and the result is stored
UpdateWrite ==
    /\ upd.pc = "write"
    /\ \E body \in UpdateBodies :
          store' = [store EXCEPT ![upd.m] = Merge(upd.snap, body)]
    /\ upd' = UpdIdle
    /\ response' = [op |-> "update", m |-> upd.m, code |-> 200]
    /\ UNCHANGED <<call, profiles, live, store0, phase, todo, progress_cache, cancellation_flags,
                   ffmpeg_processes, worker, proc, outfile, loop, calib, requests>>

\* ------------------------------------------------------------------- Next
Next ==
    \/ \E m \in Matches : LifespanVisit(m)
    \/ LifespanYield
    \/ \E m \in Matches : TranscodeReject(m)
    \/ \E m \in Matches : TranscodeNoFfmpeg(m)
    \/ \E m \in Matches : TranscodeStart(m)
    \/ \E w \in Workers : WorkerStep(w)
    \/ \E w \in Workers : ProcExit(w)
    \/ \E m \in Matches : CancelNotFound(m)
    \/ \E m \in Matches : CancelBegin(m)
    \/ CancelSignal
    \/ CancelKill
    \/ \E m \in Matches : StatusPoll(m)
    \/ \E m \in Matches : CalibNotFound(m)
    \/ \E m \in Matches : CalibBegin(m)
    \/ CalibDecode
    \/ CalibMatch
    \/ CalibOptimize
    \/ \E m \in Matches : UpdateRead(m)
    \/ UpdateWrite

Spec == Init /\ [][Next]_vars

\* ================================================================ claims
Present(m) == store[m] # NoMatch

WorkersOf(m) == {w \in Workers : Running(w) /\ worker[w].m = m}

\* worker w ends in this step
Ends(w) == Running(w) /\ worker'[w].pc = "idle"

\* worker w sees its encoder process exited and acts on it in this step
SeesExit(w, code) ==
    /\ worker[w].pc = "poll"
    /\ proc[w] = code
    /\ \/ worker'[w].pc # "poll"
       \/ worker'[w].attempts # worker[w].attempts

LastAttempt(w) == worker[w].attempts[Len(worker[w].attempts)]

\* C1: for any job id at most one transcode worker is in flight at a time.
C1_OneWorkerPerJob ==
    \A m \in Matches : Cardinality(WorkersOf(m)) <= 1

\* C2: if cancel is requested while a transcode worker is running for the
\* job, then once the cancel handler and the worker have both finished the
\* persisted status is pending: checked at the step in which the later of
\* the two finishes.
C2_CancelLeavesPending ==
    [][ /\ \A w \in Workers :
            (Ends(w) /\ worker[w].cancelReq /\ loop'.op # "cancel"
                     /\ store'[worker[w].m] # NoMatch)
                => store'[worker[w].m].status = "pending"
        /\ (loop.op = "cancel" /\ loop.hit /\ loop'.op = "free"
                /\ \A w \in Workers : ~(Running(w)' /\ worker'[w].m = loop.m))
                => store'[loop.m].status = "pending"
      ]_vars

C4_ActiveIsBacked ==
    phase = "serving" =>
        \A m \in Matches : Present(m) =>
            /\ store[m].status = "transcoding" => WorkersOf(m) # {}
            /\ store[m].status = "calibrating" =>
                  (calib.m = m /\ calib.pc \in {"matching", "optimizing"})

\* worker w, its encoder exited with 0 and its output verified, sees no
\* cancellation flag and ends in this step
SucceedsUncancelled(w) ==
    /\ SeesExit(w, "exit0")
    /\ OutputVerified(outfile[worker[w].m])
    /\ worker[w].m \notin cancellation_flags

C6_OneSoftwareFallback ==
    [][ \A w \in Workers :
          /\ (SeesExit(w, "exit1") /\ LastAttempt(w) # "libx264") =>
                /\ worker'[w].attempts = Append(worker[w].attempts, "libx264")
                /\ worker'[w].pc = "poll"
                /\ proc'[w] = "running"
          /\ (SeesExit(w, "exit1") /\ LastAttempt(w) = "libx264") =>
                /\ worker'[w].pc = "idle"
                /\ proc'[w] = "none"
                /\ store'[worker[w].m].status = "error"
                /\ store'[worker[w].m].error_message = MsgStacking
          /\ Len(worker'[w].attempts) <= 2
          /\ Len(worker'[w].attempts) = 2 =>
                /\ worker'[w].attempts[1] # "libx264"
                /\ worker'[w].attempts[2] = "libx264"
      ]_vars

C6_Witness ==
    \E w \in Workers :
        /\ worker[w].attempts = <<HwEncoder, "libx264">>
        /\ proc[w] = "exit1"

\* C7: a transcode whose encoder exits with 0 but whose output file is
\* missing or empty is not declared successful: the worker writes status
\* error, not the post-transcode state, and does not set src.
C7_NoSuccessWithoutOutput ==
    [][ \A w \in Workers :
          (SeesExit(w, "exit0") /\ outfile[worker[w].m] \in {"missing", "empty"}) =>
              /\ worker'[w].pc = "idle"
              /\ store'[worker[w].m].status = "error"
              /\ store'[worker[w].m].step # "awaiting_frames"
              /\ store'[worker[w].m].src = worker[w].snap.src
      ]_vars

C7_Witness ==
    \E m \in Matches :
        /\ Present(m)
        /\ store[m].status = "error"
        /\ store[m].error_message = MsgNoOutput
        /\ outfile[m] = "missing"

\* C8: whenever the persisted status is error, error_code and error_message
\* are both set.
C8_ErrorHasCodeAndMessage ==
    \A m \in Matches :
        (Present(m) /\ store[m].status = "error")
            => (store[m].error_code # None /\ store[m].error_message # None)

\* C9: start_transcode on a match without a left or without a right video is
\* answered 400 and changes neither the store nor the progress cache, the
\* flags, the pids, the workers, the processes or the output file.
C9_MissingSideRejected ==
    [][ \A m \in Matches :
          ( /\ requests' # requests
            /\ response'.op = "transcode" /\ response'.m = m
            /\ Present(m)
            /\ (store[m].left_videos = 0 \/ store[m].right_videos = 0) )
          => /\ response'.code = 400
             /\ UNCHANGED <<store, progress_cache, cancellation_flags,
                            ffmpeg_processes, worker, proc, outfile>>
      ]_vars

C9_Witness ==
    \E m \in Matches :
        /\ Present(m)
        /\ store[m].left_videos = 1 /\ store[m].right_videos = 0
        /\ response = [op |-> "transcode", m |-> m, code |-> 400]

\* C10: processing.status becomes calibrating only from the post-transcode
\* state (status pending, step awaiting_frames).
C10_CalibratingOnlyFromAwaiting ==
    [][ \A m \in Matches :
          (Present(m) /\ store[m].status # "calibrating"
                      /\ store'[m].status = "calibrating")
            => (store[m].status = "pending" /\ store[m].step = "awaiting_frames")
      ]_vars

\* the submit_calibration_frames call in flight ends in this step
CalibEnds == calib.pc # "idle" /\ calib'.pc = "idle"

\* both match_features and optimize_position return on the frames of the
\* call in flight
BothSucceed ==
    LET match_result == match_features(calib.frames, DefaultMinMatches) IN
    /\ match_result.raised = None
    /\ optimize_position(match_result.right_points, match_result.left_points,
                         calib.frames.converges).raised = None

\* C11: processing.status becomes ready only in the last step of a
\* submit_calibration_frames call in which match_features and
\* optimize_position both returned.
C11_ReadyOnlyAfterBothSucceed ==
    [][ \A m \in Matches :
          (Present(m) /\ store[m].status # "ready" /\ store'[m].status = "ready")
            => /\ calib.m = m /\ calib.pc = "optimizing" /\ CalibEnds
               /\ BothSucceed
      ]_vars

\* C11, the call alone: a submit_calibration_frames call that ends stores
\* ready when both functions returned and error when the decode check,
\* match_features or optimize_position raised.
C11_CallEndsReadyOrError ==
    [][ CalibEnds =>
          /\ store'[calib.m].status \in {"ready", "error"}
          /\ store'[calib.m].status = "ready" =>
                (calib.pc = "optimizing" /\ calib.frames.decodable /\ BothSucceed)
          /\ (~calib.frames.decodable \/ ~BothSucceed) => store'[calib.m].status = "error"
      ]_vars

\* the frames of the call in flight pass the decode and dimension checks and
\* at least one of them is blank
BlankFramesSubmitted ==
    /\ calib.pc # "idle"
    /\ calib.frames.decodable /\ calib.frames.same_shape
    /\ \E side \in {"left_std", "right_std"} : calib.frames[side] < BlankThreshold

FailureFields == {"status", "step", "error_message"}

\* the call in flight ends in this step because optimize_position failed
OptimizeFails ==
    /\ calib.pc = "optimizing"
    /\ CalibEnds
    /\ (~calib.frames.converges \/ response'.code # 200)

\* C13: when optimize_position fails, the record the call stores has the
\* params, num_matches and confidence the record had when the call read it,
\* and differs from that record in the processing fields status, step and
\* error_message only; the status stored is `error`.
C13_FailedOptimizeStoresNoResult ==
    [][ OptimizeFails =>
          /\ store'[calib.m].status = "error"
          /\ \A f \in DOMAIN calib.before \ FailureFields :
                store'[calib.m][f] = calib.before[f] ]_vars

\* optimize_position raised "Position optimization failed" after
\* match_features had returned a result
C13_Witness ==
    \E m \in Matches :
        /\ Present(m)
        /\ store[m].status = "error"
        /\ store[m].error_message = "Position optimization failed"
        /\ response = [op |-> "calibrate", m |-> m, code |-> 400]
        /\ calib.pc = "idle"

\* ================================================== the services' functions
\* A second specification applies the functions of services/ and the status
\* merge of the router to arguments drawn from bounded sets.  No request is
\* in flight: the store is empty and every handler is idle.
Quiescent ==
    /\ store = [m \in Matches |-> NoMatch]
    /\ store0 = store
    /\ phase = "serving"
    /\ todo = {}
    /\ progress_cache = {}
    /\ cancellation_flags = {}
    /\ ffmpeg_processes = [m \in Matches |-> NoPid]
    /\ worker = [w \in Workers |-> IdleWorker]
    /\ proc = [w \in Workers |-> "none"]
    /\ outfile = [m \in Matches |-> "missing"]
    /\ loop = LoopFree
    /\ calib = CalibIdle
    /\ upd = UpdIdle
    /\ response = NoResponse
    /\ requests = 0
    /\ profiles = NoProfiles
    /\ live = NoLive

Call(fn, args) == [fn |-> fn, args |-> args, done |-> FALSE, result |-> NoResult]

\* the function `fn` is applied to the arguments of the call and returns
\* (or raises) `result`
Return(fn, result) ==
    /\ call.fn = fn
    /\ ~call.done
    /\ call' = [call EXCEPT !.done = TRUE, !.result = result]
    /\ UNCHANGED <<store, store0, phase, todo, progress_cache, cancellation_flags,
                   ffmpeg_processes, worker, proc, outfile, loop, calib, upd,
                   response, requests, profiles, live>>

\* frame pairs for match_features: pairs that fail one of the early checks,
\* and pairs with every number of good matches up to MaxGood, of matches in
\* the overlap region and of RANSAC inliers
FramePairs ==
    { FramePair(FALSE, TRUE, 50, 50, TRUE, TRUE, 12, 10, TRUE, 9, TRUE),
      FramePair(TRUE, FALSE, 50, 50, TRUE, TRUE, 12, 10, TRUE, 9, TRUE),
      FramePair(TRUE, TRUE, 50, 50, FALSE, TRUE, 12, 10, TRUE, 9, TRUE),
      FramePair(TRUE, TRUE, 50, 50, TRUE, FALSE, 12, 10, TRUE, 9, TRUE) }
    \cup { FramePair(TRUE, TRUE, ls, rs, TRUE, TRUE, 12, 10, TRUE, 9, TRUE) :
             ls \in {0, 9, 10, 50}, rs \in {0, 9, 10, 50} }
    \cup { FramePair(TRUE, TRUE, 50, 50, TRUE, TRUE, good, overlap, TRUE, inliers, TRUE) :
             good \in 0..MaxGood, overlap \in 0..MaxGood, inliers \in 0..MaxGood }
    \cup { FramePair(TRUE, TRUE, 50, 50, TRUE, TRUE, good, overlap, FALSE, 0, TRUE) :
             good \in 0..MaxGood, overlap \in 0..MaxGood }

\* values of the parameter min_matches: the default, a smaller and a larger one
MinMatchesValues == {4, DefaultMinMatches, 12}

MatchFeaturesCalls ==
    { Call("match_features", [f |-> f, min_matches |-> k]) :
        f \in {g \in FramePairs : g.overlap <= g.good}, k \in MinMatchesValues }

ApplyMatchFeatures ==
    Return("match_features", match_features(call.args.f, call.args.min_matches))

\* C14: a call of match_features that returns a result returns num_matches
\* of at least min_matches; when fewer than min_matches correspondences are
\* left after the overlap filter, the 30-best fallback and RANSAC (run or
\* skipped), it raises the insufficient-matches ValueError with that count.
C14_NeverFewerThanMinMatches ==
    (call.fn = "match_features" /\ call.done) =>
        LET r == call.result
            k == call.args.min_matches
            left == Len(Correspondences(call.args.f, k).pts1) IN
        /\ r.raised = None => (r.num_matches >= k /\ r.left_points >= k)
        /\ (ReachesDetector(call.args.f) /\ call.args.f.descriptors
              /\ call.args.f.keypoints /\ call.args.f.good >= k /\ left < k)
             => r = ValueError(MsgInsufficient, left)

\* the overlap filter left too few matches, the 30 best were taken instead,
\* and RANSAC kept fewer than min_matches of them
C14_Witness ==
    /\ call.fn = "match_features" /\ call.done
    /\ call.args.f.overlap < call.args.min_matches
    /\ call.args.f.good > FallbackBest
    /\ call.args.f.mask
    /\ call.result.raised = "ValueError"
    /\ call.result.message = MsgInsufficient
    /\ call.result.count = call.args.min_matches - 1

\* ---------------------------------------------------------- audio offset
MaxLen == 3               \* most samples of an audio signal
SampleValues == {-1, 0, 1}
SampleRates == {8000, 16000}

RECURSIVE SumSeq(_)
SumSeq(a) == IF a = <<>> THEN 0 ELSE a[1] + SumSeq(Tail(a))

\* `a - np.mean(a)`, multiplied by len(a) to stay in the integers: a
\* positive factor, which leaves the argmax of the correlation where it is
RemoveMean(a) == [i \in 1..Len(a) |-> Len(a) * a[i] - SumSeq(a)]

\* scipy.signal.correlate(x, y, mode="full") for real signals: entry k
\* (counted from 0) is the sum of x[l] * y[l - k + len(y) - 1]; here the
\* entries and the samples are counted from 1
correlate(x, y) ==
    [k \in 1..(Len(x) + Len(y) - 1) |->
        SumSeq([l \in 1..Len(x) |->
                  IF l - k + Len(y) \in 1..Len(y) THEN x[l] * y[l - k + Len(y)] ELSE 0])]

\* np.argmax: the index, counted from 0, of the first largest entry
argmax(c) ==
    (CHOOSE i \in 1..Len(c) :
        /\ \A j \in 1..Len(c) : c[j] <= c[i]
        /\ \A j \in 1..(i - 1) : c[j] < c[i]) - 1

RuntimeError(msg) == [raised |-> "RuntimeError", message |-> msg]

\* _compute_offset on the samples and sample rates sf.read returns: the
\* offset is lag / sample_rate seconds, kept as the pair of the two
\* (sf.read failing is not modelled)
_compute_offset(a1, sr1, a2, sr2) ==
    IF sr1 # sr2 THEN RuntimeError("Sync computation failed")
    ELSE LET corr == correlate(RemoveMean(a1), RemoveMean(a2))
             lag  == argmax(corr) - Len(a2)
         IN  [raised |-> None, lag |-> lag, sample_rate |-> sr1]

Signals == UNION { [1..n -> SampleValues] : n \in 1..MaxLen }

ComputeOffsetCalls ==
    { Call("_compute_offset", [a1 |-> a1, sr1 |-> sr1, a2 |-> a2, sr2 |-> sr2]) :
        a1 \in Signals, a2 \in Signals, sr1 \in SampleRates, sr2 \in SampleRates }

ApplyComputeOffset ==
    Return("_compute_offset",
           _compute_offset(call.args.a1, call.args.sr1, call.args.a2, call.args.sr2))

OffsetComputed ==
    call.fn = "_compute_offset" /\ call.done /\ call.result.raised = None

\* C15: _compute_offset is antisymmetric: the offset of (a, b) is the
\* negative of the offset of (b, a).
C15_OffsetAntisymmetric ==
    OffsetComputed =>
        LET back == _compute_offset(call.args.a2, call.args.sr2,
                                    call.args.a1, call.args.sr1) IN
        /\ call.result.sample_rate = back.sample_rate
        /\ call.result.lag = -back.lag

\* the signal is silent but for one sample
IsImpulse(a) == \E p \in 1..Len(a) : a = [i \in 1..Len(a) |-> IF i = p THEN 1 ELSE 0]
ImpulseAt(a) == CHOOSE p \in 1..Len(a) : a[p] = 1

\* the two signals hold the same sound, a single click, `shift` samples
\* later in the first than in the second; with three samples or more the
\* correlation of the mean-removed signals has its only maximum where the
\* clicks are aligned
Shift == ImpulseAt(call.args.a1) - ImpulseAt(call.args.a2)
SharedClick ==
    /\ OffsetComputed
    /\ IsImpulse(call.args.a1) /\ IsImpulse(call.args.a2)
    /\ Len(call.args.a1) = Len(call.args.a2)
    /\ Len(call.args.a1) >= 3

\* what the code computes for a shared click: one sample less than the shift
OffsetIsShiftLessOne == SharedClick => call.result.lag = Shift - 1

\* C16: the offset is positive exactly when the shared sound sits at a later
\* sample index in the first signal (the first stream starts earlier) and
\* negative exactly when it sits at an earlier one, for every non-zero shift
\* by whole samples.
C16_SignFollowsShift ==
    (SharedClick /\ Shift # 0) =>
        /\ call.result.lag > 0 <=> Shift > 0
        /\ call.result.lag < 0 <=> Shift < 0

\* ------------------------------------------------------------ trim points
\* The offset handed to _stack_videos is a whole number of samples of the
\* 16 kHz audio _extract_audio writes; the model keeps it in samples.
SampleRate == 16000
MaxLag == 40              \* largest offset, in samples

Max(a, b) == IF a > b THEN a ELSE b

\* f"{seconds:.3f}" for a non-negative time of `samples` samples: the time
\* in milliseconds, rounded to the nearest.  A time halfway between two
\* milliseconds is rounded by the binary value of the float, which lies
\* above it for some times and below for others: `half_up` says which.
FormatMillis(samples, half_up) ==
    LET q == (samples * 1000) \div SampleRate
        r == (samples * 1000) % SampleRate
    IN  IF 2 * r > SampleRate \/ (2 * r = SampleRate /\ half_up) THEN q + 1 ELSE q

\* TrimPoints with both trims taken from the positive part of the offset
TrimPointsSameSign(offset) ==
    [video1_trim |-> Max(0, offset), video2_trim |-> Max(0, offset)]

\* `video1_trim = max(0, offset)`, `video2_trim = max(0, -offset)`
TrimPoints(offset) ==
    [video1_trim |-> Max(0, offset), video2_trim |-> Max(0, -offset)]

\* the input arguments of the ffmpeg command: for each input the value of
\* its `-ss` option in milliseconds (<<>> when the option is absent)
input_args(offset, half_up) ==
    LET t == TrimPoints(offset) IN
    [seek1 |-> IF t.video1_trim > 0 THEN <<FormatMillis(t.video1_trim, half_up)>> ELSE <<>>,
     seek2 |-> IF t.video2_trim > 0 THEN <<FormatMillis(t.video2_trim, half_up)>> ELSE <<>>]

StackVideosCalls ==
    { Call("_stack_videos", [offset |-> o, half_up |-> h]) :
        o \in (-MaxLag)..MaxLag, h \in BOOLEAN }

ApplyStackVideos ==
    Return("_stack_videos", input_args(call.args.offset, call.args.half_up))

Abs(n) == IF n < 0 THEN -n ELSE n

Stacked == call.fn = "_stack_videos" /\ call.done

\* the seek of an input, in milliseconds, is exactly `samples` samples
SeekIs(seek, samples) == seek # <<>> /\ seek[1] * SampleRate = samples * 1000

\* the seek of an input is `samples` samples rounded to the millisecond
SeekRounds(seek, samples) ==
    seek # <<>> /\ 2 * Abs(seek[1] * SampleRate - samples * 1000) <= SampleRate

\* C17 as stated: the earlier-starting input, and only that one, is seeked
\* forward, and by |offset|.
C17_TrimEqualsOffset ==
    Stacked =>
        LET o == call.args.offset IN
        /\ o > 0 => (SeekIs(call.result.seek1, o) /\ call.result.seek2 = <<>>)
        /\ o < 0 => (SeekIs(call.result.seek2, -o) /\ call.result.seek1 = <<>>)
        /\ o = 0 => (call.result.seek1 = <<>> /\ call.result.seek2 = <<>>)

\* C17: the earlier-starting input, and only that one, gets a `-ss` option:
\* the first when offset > 0, the second when offset < 0, none when it is 0;
\* the value of the option is |offset| rounded to the millisecond.
C17_TrimsEarlierInputOnly ==
    Stacked =>
        LET o == call.args.offset IN
        /\ o > 0 => (SeekRounds(call.result.seek1, o) /\ call.result.seek2 = <<>>)
        /\ o < 0 => (SeekRounds(call.result.seek2, -o) /\ call.result.seek1 = <<>>)
        /\ o = 0 => (call.result.seek1 = <<>> /\ call.result.seek2 = <<>>)

\* a negative offset near two milliseconds and a half: the second input is
\* seeked by three milliseconds, the first not at all
C17_Witness ==
    /\ Stacked
    /\ call.args.offset < 0
    /\ call.result = [seek1 |-> <<>>, seek2 |-> <<3>>]

\* ------------------------------------------------------ encoder detection
\* `encoders = ["h264_nvenc", "h264_qsv", "h264_amf"]`, in probing order
HardwareEncoders == <<"h264_nvenc", "h264_qsv", "h264_amf">>
HardwareEncoderSet == {HardwareEncoders[i] : i \in 1..Len(HardwareEncoders)}

\* EncoderType: the values settings.encoder can have
EncoderType == {"auto", "libx264"} \cup HardwareEncoderSet

\* _get_available_encoders: the encoders whose test encode exits with 0;
\* `passes` is the outcome of the probes of this one call
_get_available_encoders(passes) == SelectSeq(HardwareEncoders, LAMBDA enc : enc \in passes)

InList(x, list) == \E i \in 1..Len(list) : list[i] = x

\* _detect_gpu_encoder returning an explicit preference without probing it
DetectPreferenceUnprobed(encoder_pref, passes1, passes2) ==
    IF encoder_pref # "auto" THEN encoder_pref
    ELSE LET available == _get_available_encoders(passes2) IN
         IF available # <<>> THEN Head(available) ELSE "libx264"

\* _detect_gpu_encoder: passes1 is the outcome of the probes made for an
\* explicit preference, passes2 that of the probes made for auto-detection
_detect_gpu_encoder(encoder_pref, passes1, passes2) ==
    IF encoder_pref # "auto" /\ InList(encoder_pref, _get_available_encoders(passes1))
    THEN encoder_pref
    ELSE IF encoder_pref # "auto" /\ encoder_pref = "libx264"
    THEN "libx264"
    ELSE LET available == _get_available_encoders(passes2)
             found == SelectSeq(HardwareEncoders, LAMBDA enc : InList(enc, available))
         IN  IF found # <<>> THEN Head(found) ELSE "libx264"

DetectEncoderCalls ==
    { Call("_detect_gpu_encoder", [encoder_pref |-> p, passes1 |-> a, passes2 |-> b]) :
        p \in EncoderType, a \in SUBSET HardwareEncoderSet, b \in SUBSET HardwareEncoderSet }

ApplyDetectEncoder ==
    Return("_detect_gpu_encoder",
           _detect_gpu_encoder(call.args.encoder_pref, call.args.passes1, call.args.passes2))

Detected == call.fn = "_detect_gpu_encoder" /\ call.done

\* the first of h264_nvenc, h264_qsv, h264_amf in `passes`, libx264 if none
FirstPassing(passes) ==
    IF "h264_nvenc" \in passes THEN "h264_nvenc"
    ELSE IF "h264_qsv" \in passes THEN "h264_qsv"
    ELSE IF "h264_amf" \in passes THEN "h264_amf"
    ELSE "libx264"

\* C18: a preference other than `auto` is returned when that encoder passed
\* the probe made for it or when it is libx264; otherwise the result is the
\* first of h264_nvenc, h264_qsv, h264_amf that passed the auto-detection
\* probe, or libx264 when none did.  The result is always libx264 or a
\* hardware encoder that passed the probe it was chosen by.
C18_PreferredOrFirstPassing ==
    Detected =>
        LET pref == call.args.encoder_pref
            honoured == pref # "auto" /\ (pref \in call.args.passes1 \/ pref = "libx264") IN
        /\ honoured => call.result = pref
        /\ ~honoured => call.result = FirstPassing(call.args.passes2)
        /\ \/ call.result = "libx264"
           \/ /\ call.result \in HardwareEncoderSet
              /\ call.result \in (IF honoured THEN call.args.passes1 ELSE call.args.passes2)

\* the preferred encoder failed its probe and auto-detection fell to the
\* second encoder of the ranking
C18_Witness ==
    /\ Detected
    /\ call.args.encoder_pref = "h264_amf"
    /\ "h264_amf" \notin call.args.passes1
    /\ "h264_nvenc" \notin call.args.passes2
    /\ call.result = "h264_qsv"

\* ------------------------------------------------------------ status merge
\* The dictionaries of get_processing_status are functions from keys to
\* values; a value is the pair of where it was read and under which key.
Db(key)   == <<"persisted", key>>
Live(key) == <<"cache", key>>

EmptyDict == [k \in {} |-> Db(k)]

\* `cache_to_response`
cache_to_response ==
    [transcode_progress |-> "progress", transcode_fps |-> "fps",
     transcode_speed |-> "speed", transcode_current_time |-> "current_time",
     transcode_total_duration |-> "total_duration"]

\* every key update_progress writes into a cache entry
CacheKeys == DOMAIN cache_to_response
             \cup {"processing_message", "transcode_encoder", "offset_seconds"}

\* `dict[key] = value`
SetItem(dict, key, value) ==
    [k \in DOMAIN dict \cup {key} |-> IF k = key THEN value ELSE dict[k]]

\* MergeCache with the persisted transcode values kept where they exist
MergeCachePersistedFirst(content, cache) ==
    LET message == IF "processing_message" \in DOMAIN cache
                   THEN SetItem(content.processing, "message", cache["processing_message"])
                   ELSE content.processing
        hits    == {ck \in DOMAIN cache_to_response : ck \in DOMAIN cache}
    IN  [processing |-> message,
         transcode_is_none |-> content.transcode_is_none /\ hits = {},
         transcode |->
            [rk \in DOMAIN content.transcode \cup {cache_to_response[ck] : ck \in hits} |->
                IF rk \in DOMAIN content.transcode THEN content.transcode[rk]
                ELSE cache[CHOOSE ck \in hits : cache_to_response[ck] = rk]]]

\* lines 90-109: the message and the five transcode fields of the cache
\* entry are written over those of the response content
MergeCache(content, cache) ==
    LET message == IF "processing_message" \in DOMAIN cache
                   THEN SetItem(content.processing, "message", cache["processing_message"])
                   ELSE content.processing
        hits    == {ck \in DOMAIN cache_to_response : ck \in DOMAIN cache}
    IN  [processing |-> message,
         transcode_is_none |-> content.transcode_is_none /\ hits = {},
         transcode |->
            [rk \in DOMAIN content.transcode \cup {cache_to_response[ck] : ck \in hits} |->
                IF \E ck \in hits : cache_to_response[ck] = rk
                THEN cache[CHOOSE ck \in hits : cache_to_response[ck] = rk]
                ELSE content.transcode[rk]]]

\* get_processing_status after the stale check: `processing` and
\* `transcode` are the dumps of the persisted record (transcode None is an
\* empty dictionary with transcode_is_none set), `cached` says whether
\* _progress_cache has an entry for the match and `cache` is that entry
StatusResponse(processing, transcode_is_none, transcode, cached, cache) ==
    LET content == [processing |-> processing,
                     transcode_is_none |-> transcode_is_none,
                     transcode |-> transcode]
    IN  IF cached THEN MergeCache(content, cache) ELSE content

ProcessingDumps ==
    { EmptyDict,
      [status |-> Db("status"), step |-> Db("step"), message |-> Db("message")] }

TranscodeDumps ==
    { EmptyDict,
      [rk \in {cache_to_response[ck] : ck \in DOMAIN cache_to_response} \cup {"encoder"}
          |-> Db(rk)] }

CacheEntries == { [ck \in keys |-> Live(ck)] : keys \in SUBSET CacheKeys }

StatusCalls ==
    { Call("get_processing_status",
           [processing |-> p, transcode_is_none |-> t = EmptyDict, transcode |-> t,
            cached |-> c, cache |-> e]) :
        p \in ProcessingDumps, t \in TranscodeDumps, c \in BOOLEAN, e \in CacheEntries }

ApplyStatus ==
    Return("get_processing_status",
           StatusResponse(call.args.processing, call.args.transcode_is_none,
                          call.args.transcode, call.args.cached, call.args.cache))

Merged == call.fn = "get_processing_status" /\ call.done

\* the value the content should have under `rk` of `section`, when the
\* cache key of that field is `ck` and the persisted dump is `dump`
MergedValueIs(section, rk, ck, dump) ==
    IF call.args.cached /\ ck \in DOMAIN call.args.cache
    THEN rk \in DOMAIN section /\ section[rk] = call.args.cache[ck]
    ELSE IF rk \in DOMAIN dump
    THEN rk \in DOMAIN section /\ section[rk] = dump[rk]
    ELSE rk \notin DOMAIN section

InOverlap(m, shape) ==
    /\ 4 * shape.w_left <= 10 * m.pt1.x
    /\ 10 * m.pt2.x <= 4 * shape.w_right
    /\ 2 * shape.h_left <= 10 * m.pt1.y /\ 10 * m.pt1.y <= 8 * shape.h_left
    /\ 2 * shape.h_right <= 10 * m.pt2.y /\ 10 * m.pt2.y <= 8 * shape.h_right

\* `for m in good_matches: if ...: filtered_matches.append(m)`
filtered_matches(good_matches, shape) ==
    SelectSeq(good_matches, LAMBDA m : InOverlap(m, shape))

\* the gray frames' shape: match_features has checked that both are equal
FrameShapes == { [w_left |-> 10, w_right |-> 10, h_left |-> 10, h_right |-> 10],
                 [w_left |-> 20, w_right |-> 20, h_left |-> 10, h_right |-> 10] }

\* keypoints on either side of each threshold of the 10 and the 20 wide frame
KeyPoints == { [x |-> x, y |-> y] : x \in {0, 3, 4, 5, 6, 7, 8, 9, 12, 13},
                                    y \in {1, 2, 5, 8, 9} }

GoodMatches == { [pt1 |-> p, pt2 |-> q] : p \in KeyPoints, q \in KeyPoints }

\* lists of good matches: every single match, and pairs of a match inside
\* the band with any other, in both orders
OverlapFilterCalls ==
    LET inside == [pt1 |-> [x |-> 5, y |-> 5], pt2 |-> [x |-> 3, y |-> 5]] IN
    { Call("overlap_filter", [good_matches |-> <<m>>, shape |-> s]) :
        m \in GoodMatches, s \in FrameShapes }
    \cup { Call("overlap_filter", [good_matches |-> <<inside, m>>, shape |-> s]) :
        m \in {g \in GoodMatches : g.pt1.y = 5 /\ g.pt2.y = 5}, s \in FrameShapes }
    \cup { Call("overlap_filter", [good_matches |-> <<m, inside>>, shape |-> s]) :
        m \in {g \in GoodMatches : g.pt1.y = 5 /\ g.pt2.y = 5}, s \in FrameShapes }

ApplyOverlapFilter ==
    Return("overlap_filter",
           filtered_matches(call.args.good_matches, call.args.shape))

\* the band of the statement: the right 60% of the left frame, the left
\* 60% of the right frame, the central 60% of the height of both
InStatedBand(m, shape) ==
    /\ 10 * m.pt1.x >= 4 * shape.w_left
    /\ 10 * m.pt2.x <= 6 * shape.w_right
    /\ 2 * shape.h_left <= 10 * m.pt1.y /\ 10 * m.pt1.y <= 8 * shape.h_left
    /\ 2 * shape.h_right <= 10 * m.pt2.y /\ 10 * m.pt2.y <= 8 * shape.h_right

\* C24: the overlap filter keeps a ratio-test match if and only if its
\* left-frame point has x >= 0.4*W, its right-frame point has x <= 0.6*W and
\* both points have 0.2*H <= y <= 0.8*H.
C24_KeepsStatedBand ==
    (call.fn = "overlap_filter" /\ call.done) =>
        call.result = SelectSeq(call.args.good_matches,
                                LAMBDA m : InStatedBand(m, call.args.shape))

\* ------------------------------------------------------- multi-clip sides
MaxClips == 3             \* most clips listed for one side of a match

Clips == {"clip1", "clip2", "clip3"}

\* left_videos / right_videos of a match that passed the endpoint's check:
\* non-empty lists of different clips
VideoLists ==
    { l \in UNION { [1..n -> Clips] : n \in 1..MaxClips } :
        \A i, j \in 1..Len(l) : l[i] = l[j] => i = j }

\* What one input of the encoder shows is written as the sequence of clips
\* it plays.  concat_videos: one clip is returned as it is, several are
\* joined by the concat demuxer with `-c copy` in the order of the list
concat_videos(video_list) == video_list

\* transcode_and_stack_multiple: the two inputs handed to transcode_and_stack
transcode_and_stack_multiple(left_videos, right_videos) ==
    [left  |-> IF Len(left_videos) > 1 THEN concat_videos(left_videos)
               ELSE <<left_videos[1]>>,
     right |-> IF Len(right_videos) > 1 THEN concat_videos(right_videos)
               ELSE <<right_videos[1]>>]

\* transcode_match_endpoint: `left_videos[0].path`, `right_videos[0].path`,
\* the two inputs _transcode_background hands to transcode_and_stack
transcode_match_endpoint(left_videos, right_videos) ==
    [left |-> <<left_videos[1]>>, right |-> <<right_videos[1]>>]

TranscodeInputCalls ==
    { Call(fn, [left_videos |-> l, right_videos |-> r]) :
        fn \in {"transcode_match_endpoint", "transcode_and_stack_multiple"},
        l \in VideoLists, r \in VideoLists }

ApplyTranscodeEndpoint ==
    Return("transcode_match_endpoint",
           transcode_match_endpoint(call.args.left_videos, call.args.right_videos))

ApplyTranscodeMultiple ==
    Return("transcode_and_stack_multiple",
           transcode_and_stack_multiple(call.args.left_videos, call.args.right_videos))

\* C25: the transcode started by the endpoint encodes, for each side, all
\* clips the match lists for that side, joined in listed order; a side with
\* a single clip is encoded as that clip.
C25_EncodesAllClipsInOrder ==
    (call.fn = "transcode_match_endpoint" /\ call.done) =>
        /\ call.result.left = call.args.left_videos
        /\ call.result.right = call.args.right_videos

\* --------------------------------------------- the optimizer's parameters
\* Parameters are counted in hundredths; Pi is np.pi in that unit.
Pi == 314

Bound(lo, hi) == [lo |-> lo, hi |-> hi]

\* _minimize_sum_of_angles, `bounds`: x_ty, intersect, cam_d, x_rz, z_rx
MinimizeBounds ==
    << Bound(-100, 100), Bound(0, 100), Bound(10, 35), Bound(-Pi, Pi), Bound(-Pi, Pi) >>

\* _minimize_sum_of_angles, `x0`: the midpoint of every bound
InitialGuess == [i \in 1..5 |-> (MinimizeBounds[i].lo + MinimizeBounds[i].hi) \div 2]

\* values scipy's bounded Powell search may end on for parameter i: every
\* evaluation stays inside the bound it was given
BoundedValues(i) ==
    {MinimizeBounds[i].lo, InitialGuess[i], MinimizeBounds[i].hi}

\* the OptimizeResult of minimize(objective, x0, bounds=bounds, method='Powell')
MinimizeResults ==
    { [success |-> s, x |-> <<a, b, c, d, e>>] :
        s \in BOOLEAN, a \in BoundedValues(1), b \in BoundedValues(2),
        c \in BoundedValues(3), d \in BoundedValues(4), e \in BoundedValues(5) }

NoParams == [none |-> TRUE]

\* _minimize_sum_of_angles unpacking result.x as cam_d, intersect, x_ty, ...
MinimizeUnpacksCamFirst(result) ==
    IF ~result.success
    THEN NoParams
    ELSE [cameraAxisOffset |-> result.x[1], intersect |-> result.x[2],
          xTy |-> result.x[3], xRz |-> result.x[4], zRx |-> result.x[5]]

\* services/position_optimization.py, _minimize_sum_of_angles from the
\* result of minimize on: None without success, else result.x unpacked as
\* x_ty, intersect, cam_d, x_rz, z_rx
_minimize_sum_of_angles(result) ==
    IF ~result.success
    THEN NoParams
    ELSE [cameraAxisOffset |-> result.x[3], intersect |-> result.x[2],
          xTy |-> result.x[1], xRz |-> result.x[4], zRx |-> result.x[5]]

\* optimize_position with the dictionary it returns: the point lists by
\* their lengths, the result of minimize as an input
OptimizePositionParams(left_points, right_points, result) ==
    IF left_points = 0 \/ right_points = 0
    THEN ValueError("Point lists cannot be empty", 0)
    ELSE IF left_points # right_points
    THEN ValueError("Point lists must have equal length", 0)
    ELSE LET r == _minimize_sum_of_angles(result)
         IN  IF r = NoParams
             THEN ValueError("Position optimization failed", 0)
             ELSE [raised |-> None, params |-> r]

OptimizePositionCalls ==
    { Call("optimize_position", [left_points |-> n, right_points |-> k, result |-> r]) :
        n \in 0..2, k \in 0..2, r \in MinimizeResults }

ApplyOptimizePosition ==
    Return("optimize_position",
           OptimizePositionParams(call.args.left_points, call.args.right_points,
                                  call.args.result))

\* the ranges of the statement, in hundredths
InStatedRanges(p) ==
    /\ 10 <= p.cameraAxisOffset /\ p.cameraAxisOffset <= 35
    /\ 0 <= p.intersect /\ p.intersect <= 100
    /\ -100 <= p.xTy /\ p.xTy <= 100
    /\ -Pi <= p.xRz /\ p.xRz <= Pi
    /\ -Pi <= p.zRx /\ p.zRx <= Pi

\* C32: whenever optimize_position returns a result, cameraAxisOffset lies in
\* [0.1, 0.35], intersect in [0, 1], xTy in [-1, 1] and xRz and zRx in
\* [-pi, pi]; when the minimizer reports non-convergence it raises instead
\* of returning parameters.
C32_ParametersWithinBounds ==
    (call.fn = "optimize_position" /\ call.done) =>
        /\ call.result.raised = None => InStatedRanges(call.result.params)
        /\ ~call.args.result.success => call.result.raised = "ValueError"

\* a returned result whose xTy and intersect are at the upper end of their
\* bounds and cameraAxisOffset at its lower end
C32_Witness ==
    /\ call.fn = "optimize_position" /\ call.done
    /\ call.result.raised = None
    /\ call.args.result.x = <<100, 100, 10, Pi, -Pi>>
    /\ call.result.params.cameraAxisOffset = 10

\* ------------------------------------------------ the encoder's progress
\* A value of FFmpeg's -progress output: a string of digits with its number,
\* or another string ('N/A', a negative number, an empty value).
Digits(n) == [digits |-> TRUE, value |-> n]
NotDigits == [digits |-> FALSE]

\* `int(frame_str) if frame_str.isdigit() else 0`
CurrentFrame(block) == IF block.frame.digits THEN block.frame.value ELSE 0

\* round(a / b) for a >= 0 and b > 0
RoundDiv(a, b) == (2 * a + b) \div (2 * b)

\* the cap of 95 percent, in tenths of a percent
ProgressCap == 950

\* progress_percent without `min(95, ...)`
ProgressPercentUncapped(block, total_frames, total_duration) ==
    IF total_frames > 0 /\ CurrentFrame(block) > 0
    THEN RoundDiv(CurrentFrame(block) * ProgressCap, total_frames)
    ELSE IF block.out_time_ms.digits /\ total_duration > 0
    THEN RoundDiv(block.out_time_ms.value * ProgressCap, total_duration)
    ELSE 0

\* _stack_videos, `round(progress_percent, 1)` of a progress block, in
\* tenths of a percent: by frames when the total and the frame count are
\* positive, else by out_time_ms over the duration (both in milliseconds),
\* else 0
ProgressPercent(block, total_frames, total_duration) ==
    IF total_frames > 0 /\ CurrentFrame(block) > 0
    THEN Min(ProgressCap, RoundDiv(CurrentFrame(block) * ProgressCap, total_frames))
    ELSE IF block.out_time_ms.digits
    THEN IF total_duration > 0
         THEN Min(ProgressCap, RoundDiv(block.out_time_ms.value * ProgressCap, total_duration))
         ELSE 0
    ELSE 0

\* the test before progress_callback, publishing every block
ShouldPublishAlways(current_frame, last_frame_count, progress_count) == TRUE

\* `if current_frame != last_frame_count or progress_count <= 3`
ShouldPublish(current_frame, last_frame_count, progress_count) ==
    current_frame # last_frame_count \/ progress_count <= 3

\* the progress_info of a block
EncodingInfo(block, total_frames, total_duration) ==
    [stage |-> "encoding", frame |-> CurrentFrame(block),
     progress_percent |-> ProgressPercent(block, total_frames, total_duration)]

\* update_progress, stage 'encoding': the transcode_progress it stores,
\* `progress_info.get('progress_percent', 0)`
update_progress(progress_info) ==
    IF "progress_percent" \in DOMAIN progress_info THEN progress_info.progress_percent ELSE 0

\* the supervision loop of _stack_videos over the progress blocks FFmpeg
\* emits, from block i on: the updates published so far with the number of
\* their block, in the order of the calls of progress_callback.  A block whose
\* fps value makes float() raise is skipped by the `except`.
RECURSIVE PublishProgress(_, _, _, _, _, _)
PublishProgress(blocks, i, last_frame_count, published, total_frames, total_duration) ==
    IF i > Len(blocks)
    THEN published
    ELSE IF ~(total_duration > 0 \/ total_frames > 0) \/ ~blocks[i].fps_parses
    THEN PublishProgress(blocks, i + 1, last_frame_count, published,
                         total_frames, total_duration)
    ELSE IF ShouldPublish(CurrentFrame(blocks[i]), last_frame_count, i)
    THEN PublishProgress(blocks, i + 1, CurrentFrame(blocks[i]),
            Append(published,
                   [block |-> i,
                    transcode_progress |->
                       update_progress(EncodingInfo(blocks[i], total_frames, total_duration)),
                    frame |-> CurrentFrame(blocks[i])]),
            total_frames, total_duration)
    ELSE PublishProgress(blocks, i + 1, last_frame_count, published,
                         total_frames, total_duration)

MaxBlocks == 5

ProgressBlock(frame, out_time_ms, fps_parses) ==
    [frame |-> frame, out_time_ms |-> out_time_ms, fps_parses |-> fps_parses]

\* blocks of one encoder attempt: frame counts that repeat, advance or are
\* not a number
FrameBlocks ==
    { ProgressBlock(f, NotDigits, p) : f \in {Digits(0), Digits(1), NotDigits}, p \in BOOLEAN }

BlockLists == UNION { [1..n -> FrameBlocks] : n \in 0..MaxBlocks }

\* estimated totals: none, and 2 frames in 2000 ms
Totals == { [frames |-> 0, duration |-> 0], [frames |-> 2, duration |-> 2000] }

ProgressLoopCalls ==
    { Call("_stack_videos.progress", [blocks |-> b, total |-> t]) :
        b \in BlockLists, t \in Totals }

ApplyProgressLoop ==
    Return("_stack_videos.progress",
           PublishProgress(call.args.blocks, 1, 0, <<>>,
                           call.args.total.frames, call.args.total.duration))

\* single blocks with frame counts below, at and above the estimated total
\* and output times before and after the duration, and the update that
\* transcode_and_stack publishes before the encoder starts
PercentBlocks ==
    { ProgressBlock(f, o, TRUE) :
        f \in {NotDigits, Digits(0), Digits(1), Digits(2), Digits(3), Digits(7)},
        o \in {NotDigits, Digits(0), Digits(1000), Digits(2000), Digits(9000)} }

PercentTotals ==
    { [frames |-> f, duration |-> d] : f \in {0, 2, 3}, d \in {0, 2000, 3000} }

EncodingMessage == [stage |-> "encoding", message |-> "Encoding stacked video..."]

ProgressPercentCalls ==
    { Call("update_progress", [block |-> b, total |-> t, first |-> FALSE]) :
        b \in PercentBlocks, t \in {u \in PercentTotals : u.frames > 0 \/ u.duration > 0} }
    \cup { Call("update_progress", [block |-> ProgressBlock(NotDigits, NotDigits, TRUE),
                                    total |-> t, first |-> TRUE]) : t \in PercentTotals }

ApplyUpdateProgress ==
    Return("update_progress",
           [transcode_progress |->
              update_progress(IF call.args.first THEN EncodingMessage
                              ELSE EncodingInfo(call.args.block, call.args.total.frames,
                                                call.args.total.duration))])

\* A specification of its own applies the progress loop and update_progress
\* to the blocks above.
InitProgress ==
    /\ Quiescent
    /\ call \in ProgressLoopCalls \cup ProgressPercentCalls

NextProgress ==
    \/ ApplyProgressLoop
    \/ ApplyUpdateProgress

SpecProgress == InitProgress /\ [][NextProgress]_vars

\* C37: within one encoder attempt the updates reach the progress cache in
\* the order emitted, and after the first three progress blocks an update is
\* published only if its frame count differs from the last published one.
C37_ProgressInOrderAndThrottled ==
    (call.fn = "_stack_videos.progress" /\ call.done) =>
        LET r == call.result IN
        /\ \A j \in 1..Len(r) :
              /\ r[j].block \in 1..Len(call.args.blocks)
              /\ r[j].frame = CurrentFrame(call.args.blocks[r[j].block])
        /\ \A j \in 2..Len(r) :
              /\ r[j - 1].block < r[j].block
              /\ r[j].block > 3 => r[j].frame # r[j - 1].frame

\* five blocks with frames 0, 0, 0, 0, 1: the fourth repeats the frame count
\* and is held back, the fifth is published
C37_Witness ==
    /\ call.fn = "_stack_videos.progress" /\ call.done
    /\ Len(call.args.blocks) = 5
    /\ \A i \in 1..5 : call.args.blocks[i].fps_parses
    /\ Len(call.result) = 4
    /\ call.result[4].block = 5 /\ call.result[4].frame = 1
    /\ call.result[3].block = 3 /\ call.result[3].frame = 0

\* C38: every encoding progress update published to the cache has a
\* percentage between 0 and 95 inclusive, for any frame count, estimated
\* total, output time and duration, frame counts above the total included.
C38_ProgressBetween0And95 ==
    (call.fn = "update_progress" /\ call.done) =>
        /\ 0 <= call.result.transcode_progress
        /\ call.result.transcode_progress <= 950

\* frame 7 of an estimated 2 frames is published as 95.0
C38_Witness ==
    /\ call.fn = "update_progress" /\ call.done
    /\ ~call.args.first
    /\ call.args.block.frame = Digits(7) /\ call.args.total.frames = 2
    /\ call.result.transcode_progress = 950

\* -------------------------------------------- the dict helper of the record
\* utils/match_helpers.py, update_processing: every keyword whose value is
\* not None is stored in match_data["processing"], a keyword that is None
\* leaves the stored value as it is
match_helpers_update_processing(match_data, kwargs) ==
    [f \in DOMAIN match_data |->
        IF f \in DOMAIN kwargs /\ kwargs[f] # None THEN kwargs[f] ELSE match_data[f]]

\* the keywords of the update that ends a calibration, of the update of a
\* cancel and of the update that starts a calibration
CalibrationComplete ==
    [status |-> "ready", step |-> "complete", error_code |-> None, error_message |-> None]

ProcessingUpdates ==
    { CalibrationComplete,
      [status |-> "pending", step |-> None],
      [status |-> "calibrating", step |-> "feature_matching"] }

\* matches that failed earlier: interrupted, failed in the worker or in a
\* calibration, interrupted and calibrating again
FailedMatches ==
    { Match("error", None, "INTERRUPTED", "Processing was interrupted. Please retry.",
            "videos/id.mp4", "offset", 1, 1, "default"),
      Match("error", None, None, "Failed to process frames",
            "videos/id.mp4", "offset", 1, 1, "default"),
      Match("calibrating", "feature_matching", "INTERRUPTED",
            "Processing was interrupted. Please retry.",
            "videos/id.mp4", "offset", 1, 1, "default") }

\* a match that never failed
CleanMatch ==
    Match("pending", "awaiting_frames", None, None, "videos/id.mp4", "offset", 1, 1, "default")

UpdateProcessingCalls ==
    { Call("update_processing", [match_data |-> d, kwargs |-> k]) :
        d \in FailedMatches \cup {CleanMatch}, k \in ProcessingUpdates }

ApplyUpdateProcessing ==
    Return("update_processing",
           match_helpers_update_processing(call.args.match_data, call.args.kwargs))

InitServices ==
    /\ Quiescent
    /\ call \in MatchFeaturesCalls \cup ComputeOffsetCalls \cup StackVideosCalls
                \cup DetectEncoderCalls \cup StatusCalls \cup OverlapFilterCalls
                \cup TranscodeInputCalls \cup OptimizePositionCalls
                \cup UpdateProcessingCalls

NextServices ==
    \/ ApplyMatchFeatures
    \/ ApplyComputeOffset
    \/ ApplyStackVideos
    \/ ApplyDetectEncoder
    \/ ApplyStatus
    \/ ApplyOverlapFilter
    \/ ApplyTranscodeEndpoint
    \/ ApplyTranscodeMultiple
    \/ ApplyOptimizePosition
    \/ ApplyUpdateProcessing

SpecServices == InitServices /\ [][NextServices]_vars

\* ------------------------------------- two transcode requests for one job
\* A third specification starts where transcode_match_endpoint has answered
\* two requests for the match "m1" and neither thread has run yet, and
\* follows the workers and the requests that act on them.
UploadedMatch == Match("pending", None, None, None, None, None, 1, 1, "default")

InitTwoWorkers ==
    /\ store = [m \in Matches |->
                  IF m = "m1"
                  THEN update_processing(UploadedMatch,
                          [status |-> "transcoding", step |-> "transcoding"])
                  ELSE NoMatch]
    /\ store0 = [m \in Matches |-> IF m = "m1" THEN UploadedMatch ELSE NoMatch]
    /\ phase = "serving"
    /\ todo = {}
    /\ progress_cache = {"m1"}
    /\ cancellation_flags = {}
    /\ ffmpeg_processes = [m \in Matches |-> NoPid]
    /\ worker = [w \in Workers |->
                   IF w <= 2 THEN [IdleWorker EXCEPT !.pc = "start", !.m = "m1"]
                   ELSE IdleWorker]
    /\ proc = [w \in Workers |-> "none"]
    /\ outfile = [m \in Matches |-> "missing"]
    /\ loop = LoopFree
    /\ calib = CalibIdle
    /\ upd = UpdIdle
    /\ response = [op |-> "transcode", m |-> "m1", code |-> 200]
    /\ requests = 0
    /\ call = NoCall
    /\ profiles = NoProfiles
    /\ live = NoLive

NextTwoWorkers ==
    \/ \E w \in Workers : WorkerStep(w)
    \/ \E w \in Workers : ProcExit(w)
    \/ \E m \in Matches : TranscodeStart(m)
    \/ \E m \in Matches : CancelNotFound(m)
    \/ \E m \in Matches : CancelBegin(m)
    \/ CancelSignal
    \/ CancelKill

SpecTwoWorkers == InitTwoWorkers /\ [][NextTwoWorkers]_vars

\* the program state of InitTwoWorkers, as Spec reaches it with its second
\* request
TwoWorkersStarted ==
    /\ store["m1"] = update_processing(UploadedMatch,
                        [status |-> "transcoding", step |-> "transcoding"])
    /\ store["m2"] = NoMatch
    /\ store0["m1"] = UploadedMatch
    /\ phase = "serving" /\ todo = {}
    /\ progress_cache = {"m1"} /\ cancellation_flags = {}
    /\ \A w \in 1..2 : worker[w] = [IdleWorker EXCEPT !.pc = "start", !.m = "m1"]
    /\ \A w \in Workers : proc[w] = "none"
    /\ loop = LoopFree /\ calib = CalibIdle /\ upd = UpdIdle
    /\ response = [op |-> "transcode", m |-> "m1", code |-> 200]

\* C20: at the moment a transcode worker of a job ends (success, encoder
\* failure or cancellation) the progress cache, the cancellation-flag map
\* and the process-id map hold no entry for the job.
C20_NoEntriesWhenWorkerEnds ==
    [][ \A w \in Workers :
          Ends(w) =>
            /\ worker[w].m \notin progress_cache'
            /\ worker[w].m \notin cancellation_flags'
            /\ ffmpeg_processes'[worker[w].m] = NoPid ]_vars

\* the processing section of a record
ProcessingOf(rec) ==
    [f \in {"status", "step", "error_code", "error_message"} |-> rec[f]]

\* the snapshot from which the record of m is written in this step, for the
\* writers the transcode worker, the cancel handler and the calibration
\* handler; the step is a write of one of them from a snapshot it read in an
\* earlier step
WritesFromSnapshot(m, snap) ==
    /\ store'[m] # store[m]
    /\ \/ \E w \in Workers :
             /\ worker[w].m = m /\ worker[w].pc \notin {"idle", "start"}
             /\ worker'[w] # worker[w]
             /\ snap = worker[w].snap
       \/ /\ loop.op = "cancel" /\ loop.m = m /\ loop' = LoopFree
          /\ snap = loop.snap
       \/ /\ calib.m = m /\ calib.pc \notin {"idle", "await"} /\ calib' # calib
          /\ snap = calib.snap

\* C21: the writers of one job's record never overlap: whenever the worker,
\* the cancel handler or the calibration handler writes the record from the
\* snapshot it read, the stored record still has the processing section of
\* that snapshot, so no other writer's transition is overwritten.
C21_NoWriteFromStaleSnapshot ==
    [][ \A m \in Matches :
          \A snap \in {worker[w].snap : w \in Workers} \cup {loop.snap, calib.snap} :
             (snap # NoMatch /\ WritesFromSnapshot(m, snap))
                => ProcessingOf(store[m]) = ProcessingOf(snap) ]_vars

\* ------------------------------------------------------------- scheduling
\* The worker threads and the handler that owns the event loop are always
\* scheduled again; nothing makes an encoder process exit or a client send a
\* request.
SpecTwoWorkersFair ==
    /\ SpecTwoWorkers
    /\ \A w \in Workers : WF_vars(WorkerStep(w))
    /\ WF_vars(CancelSignal)
    /\ WF_vars(CancelKill)

Transcoding(m) == Present(m) /\ store[m].status = "transcoding"

\* C22: every started transcode eventually leaves the status `transcoding`,
\* also when its encoder process never exits: the supervision gives up after
\* its ceiling and fails the job.
C22_TranscodingEnds ==
    \A m \in Matches : Transcoding(m) ~> ~Transcoding(m)

\* C23: cancel for an id that has no persisted match answers 404 and changes
\* nothing: no cancellation flag is set, no process is signalled, no
\* progress-cache entry is removed, no record is written.
C23_CancelUnknownChangesNothing ==
    [][ \A m \in Matches :
          (~Present(m) /\ response' # response /\ response'.op = "cancel" /\ response'.m = m)
             => /\ response'.code = 404
                /\ UNCHANGED <<store, progress_cache, cancellation_flags,
                               ffmpeg_processes, worker, proc, outfile, loop>> ]_vars

\* a cancel request for an unknown id was answered while a transcode of
\* another match was running
C23_Witness ==
    /\ response.op = "cancel" /\ response.code = 404
    /\ ~Present(response.m)
    /\ \E w \in Workers : Running(w) /\ proc[w] = "running"

\* ------------------------------------------------- update_match, protected
\* processing, src, params and transcode of a stored record
Protected(rec) == [f \in protected_fields |-> rec[f]]

\* C26: a write of update_match leaves the stored processing, src, params
\* and transcode of the match as they were just before the write, whatever
\* the body holds and whoever wrote them since the handler read the record.
C26_UpdateKeepsProtected ==
    [][ (upd.pc = "write" /\ upd'.pc = "idle")
          => Protected(store'[upd.m]) = Protected(store[upd.m]) ]_vars

\* ------------------------------------------- cancel of a calibrating job
\* A further specification starts where a calibration of "m1" has ended and
\* update_match has then stored the record it had read while the calibration
\* ran: the stored status is `calibrating` and no handler is running.  It
\* follows the requests that act on that record.
TranscodedMatch ==
    Match("pending", "awaiting_frames", None, None, "videos/id.mp4", "offset", 1, 1, "default")

InitStaleCalibrating ==
    /\ store = [m \in Matches |->
                  IF m = "m1"
                  THEN update_processing(TranscodedMatch,
                          [status |-> "calibrating", step |-> "feature_matching"])
                  ELSE NoMatch]
    /\ store0 = [m \in Matches |-> IF m = "m1" THEN TranscodedMatch ELSE NoMatch]
    /\ phase = "serving"
    /\ todo = {}
    /\ progress_cache = {}
    /\ cancellation_flags = {}
    /\ ffmpeg_processes = [m \in Matches |-> NoPid]
    /\ worker = [w \in Workers |-> IdleWorker]
    /\ proc = [w \in Workers |-> "none"]
    /\ outfile = [m \in Matches |-> IF m = "m1" THEN "ok" ELSE "missing"]
    /\ loop = LoopFree
    /\ calib = CalibIdle
    /\ upd = UpdIdle
    /\ response = [op |-> "update", m |-> "m1", code |-> 200]
    /\ requests = 0
    /\ call = NoCall
    /\ profiles = NoProfiles
    /\ live = NoLive

\* no transcode is requested, so cancel_processing finds no pid to kill
NextStaleCalibrating ==
    \/ \E m \in Matches : CancelNotFound(m)
    \/ \E m \in Matches : CancelBegin(m)
    \/ CancelSignal
    \/ \E m \in Matches : StatusPoll(m)
    \/ \E m \in Matches : CalibNotFound(m)
    \/ \E m \in Matches : CalibBegin(m)
    \/ CalibDecode
    \/ CalibMatch
    \/ CalibOptimize
    \/ \E m \in Matches : UpdateRead(m)
    \/ UpdateWrite

SpecStaleCalibrating == InitStaleCalibrating /\ [][NextStaleCalibrating]_vars

\* the program state of InitStaleCalibrating, as Spec reaches it with its
\* second request
StaleCalibrating ==
    /\ store["m1"] = update_processing(TranscodedMatch,
                        [status |-> "calibrating", step |-> "feature_matching"])
    /\ store["m2"] = NoMatch
    /\ store0["m1"] = TranscodedMatch
    /\ phase = "serving" /\ todo = {}
    /\ progress_cache = {} /\ cancellation_flags = {}
    /\ \A w \in Workers : worker[w] = IdleWorker /\ proc[w] = "none"
    /\ outfile["m1"] = "ok"
    /\ loop = LoopFree /\ calib = CalibIdle /\ upd = UpdIdle
    /\ response = [op |-> "update", m |-> "m1", code |-> 200]

\* cancel_processing answers 200 for m after reading a record whose status
\* was `calibrating`
CancelCalibratingEnds(m) ==
    /\ loop.op = "cancel" /\ loop.m = m
    /\ loop.snap.status = "calibrating"
    /\ loop' = LoopFree

\* a process_match_with_frames call for m that read the record as
\* `calibrating`, with a cancel request for m received since, takes a step
CancelledCalibrationSteps(m) ==
    /\ calib.m = m /\ calib.pc # "idle"
    /\ calib.before.status = "calibrating"
    /\ m \in cancellation_flags
    /\ calib' # calib

\* C27: when cancel is accepted for a job whose status is `calibrating` the
\* stored status becomes `pending`, and a calibration of that job that was
\* in progress then does not store `ready` or `error` afterwards.
C27_CancelledCalibrationStaysPending ==
    [][ \A m \in Matches :
          /\ CancelCalibratingEnds(m) => store'[m].status = "pending"
          /\ CancelledCalibrationSteps(m) => store'[m].status \notin {"ready", "error"}
      ]_vars

\* ====================================================== the repositories
\* Two further specifications drive the repositories the way their callers
\* and tests do, one call after the other: FileMatchStore on `store`, the
\* lens profile stores on `profiles`.  `call` holds the last call with its
\* arguments and what it returned or raised.
Raises(kind, msg) == [raised |-> kind, message |-> msg]
Returns(value)    == [raised |-> None, value |-> value]
\* Python's True and False, as records like every other returned value
True  == [bool |-> TRUE]
False == [bool |-> FALSE]

Applied(fn, args, result) == [fn |-> fn, args |-> args, done |-> TRUE, result |-> result]

\* no handler, thread or request is involved in a repository call
ServerUntouched ==
    UNCHANGED <<store0, phase, todo, progress_cache, cancellation_flags,
                ffmpeg_processes, worker, proc, outfile, loop, calib, upd,
                response, requests, live>>

\* --------------------------------------------------------- FileMatchStore
\* match dicts that pass MatchModel's validation: a match as uploaded, as
\* transcoded and as calibrated
CalibratedMatch ==
    Match("ready", "complete", None, None, "videos/id.mp4", "offset", 1, 1, "calibrated")

MatchDicts == {UploadedMatch, TranscodedMatch, CalibratedMatch}

\* FileMatchStore.get_by_id: the match, or None (NoMatch) when the file
\* does not exist
FileMatchStore_get_by_id(files, match_id) ==
    IF files[match_id] = NoMatch THEN Returns(NoMatch) ELSE Returns(files[match_id])

\* FileMatchStore.create: the files afterwards and the outcome
FileMatchStore_create(files, match_id, match_dict) ==
    IF files[match_id] # NoMatch
    THEN [files |-> files, result |-> Raises("ValueError", "already exists")]
    ELSE [files |-> [files EXCEPT ![match_id] = match_dict],
          result |-> Returns(match_dict)]

\* FileMatchStore.update
FileMatchStore_update(files, match_id, match_dict) ==
    IF files[match_id] = NoMatch
    THEN [files |-> files, result |-> Raises("ValueError", "not found")]
    ELSE [files |-> [files EXCEPT ![match_id] = match_dict],
          result |-> Returns(match_dict)]

\* FileMatchStore.delete that answers True without removing the file
FileMatchStoreDeleteKeepsFile(files, match_id) ==
    IF files[match_id] = NoMatch
    THEN [files |-> files, result |-> Returns(False)]
    ELSE [files |-> files, result |-> Returns(True)]

\* FileMatchStore.delete
FileMatchStore_delete(files, match_id) ==
    IF files[match_id] = NoMatch
    THEN [files |-> files, result |-> Returns(False)]
    ELSE [files |-> [files EXCEPT ![match_id] = NoMatch], result |-> Returns(True)]

MatchStoreGet(m) ==
    /\ call' = Applied("FileMatchStore.get_by_id", [id |-> m],
                       FileMatchStore_get_by_id(store, m))
    /\ UNCHANGED <<store, profiles>>
    /\ ServerUntouched

MatchStoreCreate(m, match_dict) ==
    LET r == FileMatchStore_create(store, m, match_dict) IN
    /\ store' = r.files
    /\ call' = Applied("FileMatchStore.create", [id |-> m, match |-> match_dict], r.result)
    /\ UNCHANGED profiles
    /\ ServerUntouched

MatchStoreUpdate(m, match_dict) ==
    LET r == FileMatchStore_update(store, m, match_dict) IN
    /\ store' = r.files
    /\ call' = Applied("FileMatchStore.update", [id |-> m, match |-> match_dict], r.result)
    /\ UNCHANGED profiles
    /\ ServerUntouched

MatchStoreDelete(m) ==
    LET r == FileMatchStore_delete(store, m) IN
    /\ store' = r.files
    /\ call' = Applied("FileMatchStore.delete", [id |-> m], r.result)
    /\ UNCHANGED profiles
    /\ ServerUntouched

\* an empty matches directory, as the fixture of the tests makes it
InitMatchStore ==
    /\ Quiescent
    /\ call = NoCall

NextMatchStore ==
    \/ \E m \in Matches : MatchStoreGet(m)
    \/ \E m \in Matches, d \in MatchDicts : MatchStoreCreate(m, d)
    \/ \E m \in Matches, d \in MatchDicts : MatchStoreUpdate(m, d)
    \/ \E m \in Matches : MatchStoreDelete(m)

SpecMatchStore == InitMatchStore /\ [][NextMatchStore]_vars

\* ---------------------------------------------------- FileLensProfileStore
ProfileIds == {"p1", "p2"}
CameraBrands == {"GoPro", "Sony"}

\* utils/slug.py, slugify, on the names used here: lowercase, spaces to
\* hyphens
slugify(text) ==
    CASE text = "GoPro" -> "gopro"
      [] text = "Sony" -> "sony"
      [] text = "HERO10 Black" -> "hero10-black"
      [] OTHER -> text

\* a profile dict that passes LensProfileModel's validation; source is
\* metadata['source']
Profile(id, brand, source) ==
    [id |-> id, camera_brand |-> brand, camera_model |-> "HERO10 Black", source |-> source]

\* the profile dicts a caller passes in
ProfileDicts == { Profile(id, brand, None) : id \in ProfileIds, brand \in CameraBrands }

\* FileLensProfileStore._derive_file_path: brand_slug/model_slug/id.json.
\* A file of the store is written as the profile it holds; its path is the
\* one derived from that profile.
_derive_file_path(profile_dict) ==
    <<slugify(profile_dict.camera_brand), slugify(profile_dict.camera_model),
      profile_dict.id>>

\* `rglob(f"{profile_id}.json")` with `profile.get("id") == profile_id`
FilesNamed(files, profile_id) == {f \in files : f.id = profile_id}

\* the file at file_path is written (replaced when it exists)
WriteFile(files, profile) ==
    {f \in files : _derive_file_path(f) # _derive_file_path(profile)} \cup {profile}

\* FileLensProfileStore.create: `if file_path.exists(): raise`
FileLensProfileStore_create(files, profile) ==
    IF \E f \in files : _derive_file_path(f) = _derive_file_path(profile)
    THEN [files |-> files, result |-> Raises("ValueError", "already exists")]
    ELSE [files |-> WriteFile(files, profile), result |-> Returns(profile)]

\* FileLensProfileStore.update; existing is the file the scan found first
FileLensProfileStore_update(files, profile_id, profile, existing) ==
    IF profile.id # profile_id
    THEN [files |-> files, result |-> Raises("ValueError", "Profile ID mismatch")]
    ELSE IF FilesNamed(files, profile_id) = {}
    THEN [files |-> files, result |-> Raises("ValueError", "not found")]
    ELSE [files |-> WriteFile(files \ {existing}, profile), result |-> Returns(profile)]

\* FileLensProfileStore.delete; existing is the file the scan found first
FileLensProfileStore_delete(files, profile_id, existing) ==
    IF FilesNamed(files, profile_id) = {}
    THEN [files |-> files, result |-> Returns(False)]
    ELSE [files |-> files \ {existing}, result |-> Returns(True)]

\* the files a scan for profile_id can find first: any of them, or none
\* (written as the id alone) when there is no such file
Found(files, profile_id) ==
    IF FilesNamed(files, profile_id) = {} THEN {[id |-> None]}
    ELSE FilesNamed(files, profile_id)

ProfilesCall(fn, args, result) ==
    /\ call' = Applied(fn, args, result)
    /\ UNCHANGED store
    /\ ServerUntouched

FileProfileCreate(p) ==
    LET r == FileLensProfileStore_create(profiles.user, p) IN
    /\ profiles' = [profiles EXCEPT !.user = r.files]
    /\ ProfilesCall("FileLensProfileStore.create", [id |-> p.id, profile |-> p], r.result)

FileProfileUpdate(id, p) ==
    \E existing \in Found(profiles.user, id) :
       LET r == FileLensProfileStore_update(profiles.user, id, p, existing) IN
       /\ profiles' = [profiles EXCEPT !.user = r.files]
       /\ ProfilesCall("FileLensProfileStore.update", [id |-> id, profile |-> p], r.result)

FileProfileDelete(id) ==
    \E existing \in Found(profiles.user, id) :
       LET r == FileLensProfileStore_delete(profiles.user, id, existing) IN
       /\ profiles' = [profiles EXCEPT !.user = r.files]
       /\ ProfilesCall("FileLensProfileStore.delete", [id |-> id], r.result)

\* -------------------------------------------------- HybridLensProfileStore
\* the bundled profiles of the read-only SQLite store
OfficialProfiles == { Profile("p1", "GoPro", None) }

\* HybridLensProfileStore.get_by_id returns a profile
HybridHas(h, profile_id) ==
    \/ FilesNamed(h.user, profile_id) # {}
    \/ FilesNamed(h.official, profile_id) # {}

\* _add_source_marker(profile, 'user')
_add_source_marker(profile, source) == [profile EXCEPT !.source = source]

\* HybridLensProfileStore.create
HybridLensProfileStore_create(h, profile) ==
    IF HybridHas(h, profile.id)
    THEN [stores |-> h, result |-> Raises("ValueError", "already exists")]
    ELSE LET r == FileLensProfileStore_create(h.user, _add_source_marker(profile, "user")) IN
         [stores |-> [h EXCEPT !.user = r.files], result |-> r.result]

\* HybridLensProfileStore.update
HybridLensProfileStore_update(h, profile_id, profile, existing) ==
    IF FilesNamed(h.user, profile_id) # {}
    THEN LET r == FileLensProfileStore_update(h.user, profile_id, profile, existing) IN
         [stores |-> [h EXCEPT !.user = r.files], result |-> r.result]
    ELSE IF FilesNamed(h.official, profile_id) # {}
    THEN [stores |-> h,
          result |-> Raises("RuntimeError", "Cannot modify official bundled profiles")]
    ELSE [stores |-> h, result |-> Raises("ValueError", "not found")]

\* HybridLensProfileStore.delete that removes the id from the favorites
\* before it looks for the profile
HybridDeleteDiscardsFirst(h, profile_id, existing) ==
    IF FilesNamed(h.user, profile_id) # {}
    THEN LET r == FileLensProfileStore_delete(h.user, profile_id, existing) IN
         [stores |-> [h EXCEPT !.user = r.files,
                               !.favorites = h.favorites \ {profile_id}],
          result |-> r.result]
    ELSE IF FilesNamed(h.official, profile_id) # {}
    THEN [stores |-> [h EXCEPT !.favorites = h.favorites \ {profile_id}],
          result |-> Raises("RuntimeError", "Cannot delete official bundled profiles")]
    ELSE [stores |-> h, result |-> Returns(False)]

\* HybridLensProfileStore.delete
HybridLensProfileStore_delete(h, profile_id, existing) ==
    IF FilesNamed(h.user, profile_id) # {}
    THEN LET r == FileLensProfileStore_delete(h.user, profile_id, existing) IN
         [stores |-> [h EXCEPT !.user = r.files,
                               !.favorites = h.favorites \ {profile_id}],
          result |-> r.result]
    ELSE IF FilesNamed(h.official, profile_id) # {}
    THEN [stores |-> h,
          result |-> Raises("RuntimeError", "Cannot delete official bundled profiles")]
    ELSE [stores |-> h, result |-> Returns(False)]

\* HybridLensProfileStore.set_favorite
HybridLensProfileStore_set_favorite(h, profile_id, is_favorite) ==
    IF ~HybridHas(h, profile_id)
    THEN [stores |-> h, result |-> Raises("ValueError", "not found")]
    ELSE [stores |-> [h EXCEPT !.favorites = IF is_favorite
                                             THEN h.favorites \cup {profile_id}
                                             ELSE h.favorites \ {profile_id}],
          result |-> Returns(IF is_favorite THEN True ELSE False)]

HybridCreate(p) ==
    LET r == HybridLensProfileStore_create(profiles, p) IN
    /\ profiles' = r.stores
    /\ ProfilesCall("HybridLensProfileStore.create", [id |-> p.id, profile |-> p], r.result)

HybridUpdate(id, p) ==
    \E existing \in Found(profiles.user, id) :
       LET r == HybridLensProfileStore_update(profiles, id, p, existing) IN
       /\ profiles' = r.stores
       /\ ProfilesCall("HybridLensProfileStore.update", [id |-> id, profile |-> p], r.result)

HybridDelete(id) ==
    \E existing \in Found(profiles.user, id) :
       LET r == HybridLensProfileStore_delete(profiles, id, existing) IN
       /\ profiles' = r.stores
       /\ ProfilesCall("HybridLensProfileStore.delete", [id |-> id], r.result)

HybridSetFavorite(id, is_favorite) ==
    LET r == HybridLensProfileStore_set_favorite(profiles, id, is_favorite) IN
    /\ profiles' = r.stores
    /\ ProfilesCall("HybridLensProfileStore.set_favorite",
                    [id |-> id, is_favorite |-> is_favorite], r.result)

\* the bundled profiles, an empty user directory, no favorites file
InitProfileStores ==
    /\ store = [m \in Matches |-> NoMatch]
    /\ store0 = store
    /\ phase = "serving"
    /\ todo = {}
    /\ progress_cache = {}
    /\ cancellation_flags = {}
    /\ ffmpeg_processes = [m \in Matches |-> NoPid]
    /\ worker = [w \in Workers |-> IdleWorker]
    /\ proc = [w \in Workers |-> "none"]
    /\ outfile = [m \in Matches |-> "missing"]
    /\ loop = LoopFree
    /\ calib = CalibIdle
    /\ upd = UpdIdle
    /\ response = NoResponse
    /\ requests = 0
    /\ call = NoCall
    /\ profiles = [official |-> OfficialProfiles, user |-> {}, favorites |-> {}]
    /\ live = NoLive

NextProfileStores ==
    \/ \E p \in ProfileDicts : FileProfileCreate(p)
    \/ \E id \in ProfileIds, p \in ProfileDicts : FileProfileUpdate(id, p)
    \/ \E id \in ProfileIds : FileProfileDelete(id)
    \/ \E p \in ProfileDicts : HybridCreate(p)
    \/ \E id \in ProfileIds, p \in ProfileDicts : HybridUpdate(id, p)
    \/ \E id \in ProfileIds : HybridDelete(id)
    \/ \E id \in ProfileIds, is_favorite \in BOOLEAN : HybridSetFavorite(id, is_favorite)

SpecProfileStores == InitProfileStores /\ [][NextProfileStores]_vars

\* id is stored in the matches directory
Stored(m) == store[m] # NoMatch

\* the step is a call of fn with the id m
Calls(fn, m) == call'.fn = fn /\ call'.args.id = m

\* C29: over any sequence of create, update and delete on FileMatchStore
\* an id is stored (get_by_id returns its match) after a call exactly when
\* that call created it, or it was stored before and the call did not
\* delete it; update of a missing id raises ValueError 'not found' and
\* delete of a missing id returns False, neither storing anything; delete
\* of a stored id returns True and removes it; get_by_id returns a match
\* exactly for the stored ids.
C29_StoredIffCreatedAndNotDeleted ==
    [][ \A m \in Matches :
          /\ Stored(m)' <=> \/ Calls("FileMatchStore.create", m) /\ ~Stored(m)
                            \/ Stored(m) /\ ~Calls("FileMatchStore.delete", m)
          /\ (Calls("FileMatchStore.update", m) /\ ~Stored(m))
                => call'.result = Raises("ValueError", "not found") /\ store' = store
          /\ (Calls("FileMatchStore.delete", m) /\ ~Stored(m))
                => call'.result = Returns(False) /\ store' = store
          /\ (Calls("FileMatchStore.delete", m) /\ Stored(m))
                => call'.result = Returns(True) /\ ~Stored(m)'
          /\ Calls("FileMatchStore.get_by_id", m)
                => (call'.result.value # NoMatch <=> Stored(m))
      ]_vars

\* a stored id was deleted while the other id stays stored
C29_Witness ==
    /\ call.fn = "FileMatchStore.delete"
    /\ call.result = Returns(True)
    /\ ~Stored(call.args.id)
    /\ \E m \in Matches : Stored(m)

\* C28: a create call for an id that is already stored raises ValueError
\* ('already exists') and leaves what is stored unchanged, in
\* FileMatchStore.create and in FileLensProfileStore.create.
C28_DuplicateCreateRaises ==
    [][ /\ \A m \in Matches :
             (Calls("FileMatchStore.create", m) /\ Stored(m))
                => /\ call'.result = Raises("ValueError", "already exists")
                   /\ store' = store
        /\ \A id \in ProfileIds :
             (Calls("FileLensProfileStore.create", id) /\ FilesNamed(profiles.user, id) # {})
                => /\ call'.result = Raises("ValueError", "already exists")
                   /\ profiles' = profiles
      ]_vars

\* the half of C28 about FileMatchStore.create
MatchStoreDuplicateCreateRaises ==
    [][ \A m \in Matches :
          (Calls("FileMatchStore.create", m) /\ Stored(m))
             => /\ call'.result = Raises("ValueError", "already exists")
                /\ store' = store
      ]_vars

\* the id names an official profile and no user profile
OfficialOnly(id) ==
    FilesNamed(profiles.official, id) # {} /\ FilesNamed(profiles.user, id) = {}

\* C30: through HybridLensProfileStore an update or delete of an id that
\* exists only in the official store raises an error and leaves the official
\* store, the user store and the favorites unchanged, and no create, update
\* or delete changes the official store.
C30_OfficialProfilesReadOnly ==
    [][ \A id \in ProfileIds :
          /\ ( /\ \/ Calls("HybridLensProfileStore.update", id)
                  \/ Calls("HybridLensProfileStore.delete", id)
               /\ OfficialOnly(id) )
                => /\ call'.result.raised = "RuntimeError"
                   /\ profiles' = profiles
          /\ ( \/ Calls("HybridLensProfileStore.create", id)
               \/ Calls("HybridLensProfileStore.update", id)
               \/ Calls("HybridLensProfileStore.delete", id) )
                => profiles'.official = profiles.official
      ]_vars

\* delete was refused for an official profile that is a favorite, while the
\* user store holds another profile
C30_Witness ==
    /\ call.fn = "HybridLensProfileStore.delete"
    /\ call.result.raised = "RuntimeError"
    /\ OfficialOnly(call.args.id)
    /\ call.args.id \in profiles.favorites
    /\ profiles.user # {}

\* ------------------------------------------------ frames that do not decode
\* C31: a process_match_with_frames call whose image data cannot be decoded
\* is answered with 400, not with 500.
C31_UndecodableFramesAnswer400 ==
    [][ (calib.pc = "await" /\ ~calib.frames.decodable /\ calib'.pc = "idle")
          => (response'.op = "calibrate" /\ response'.code = 400) ]_vars

\* ------------------------------------------- encoders after a cancellation
\* C33: once the cancellation flag of a job is set, the worker of that job
\* launches no further encoder process; a hardware encoder killed by cancel
\* is not followed by a libx264 attempt.
C33_NoEncoderAfterCancel ==
    [][ \A w \in Workers :
          (worker[w].pc \in {"sync", "poll"} /\ worker[w].m \in cancellation_flags)
             => Len(worker'[w].attempts) <= Len(worker[w].attempts) ]_vars

\* C33, the case the statement names: the flag is set, cancel has signalled
\* the hardware encoder of the job and removed its pid, the process is dead,
\* and the worker does not go on to libx264
C33_NoFallbackAfterKill ==
    [][ \A w \in Workers :
          (worker[w].pc = "poll" /\ worker[w].m \in cancellation_flags
             /\ proc[w] = "exit1" /\ worker[w].cancelReq
             /\ ffmpeg_processes[worker[w].m] = NoPid)
             => Len(worker'[w].attempts) <= Len(worker[w].attempts) ]_vars

\* ------------------------------------------ a cancel with nothing to cancel
\* C34: a cancel request made while no transcode is in flight for the job
\* has no effect on later runs: the worker of a transcode started afterwards,
\* for which no cancel arrived since it was started, goes on to encode.
C34_IdleCancelLeavesNoTrace ==
    [][ \A w \in Workers :
          (/\ worker[w].pc = "start" /\ worker'[w].pc # "start"
           /\ ~worker[w].cancelReq
           /\ store[worker[w].m] # NoMatch
           /\ \A v \in Workers : v # w => ~(Running(v) /\ worker[v].m = worker[w].m))
             => worker'[w].pc = "sync" ]_vars

\* --------------------------------------------------- what a poll interrupts
\* a transcode worker thread is alive for the job
LiveWorker(m) == \E w \in Workers : Running(w) /\ worker[w].m = m

\* a process_match_with_frames call is in progress for the job
LiveCalibration(m) == calib.pc # "idle" /\ calib.m = m

\* C35: the status poll rewrites a job to error/INTERRUPTED only when
\* nothing is running for it: never while a transcode worker is alive or a
\* calibration is in progress for the job.
C35_PollInterruptsOnlyDeadJobs ==
    [][ \A m \in Matches :
          (/\ response'.op = "status" /\ response'.m = m /\ requests' # requests
           /\ store[m] # NoMatch /\ store'[m] # store[m])
             => ~LiveWorker(m) /\ ~LiveCalibration(m) ]_vars

\* ================================================== the live stream router
\* start_live_stream, stop_live_stream and live_status are `def` handlers,
\* which FastAPI runs on threads of its pool.  start and stop hold _live_lock
\* for their whole body; live_status takes no lock.  A process that gets
\* SIGTERM and, after 5 seconds, SIGKILL is taken to end.
OnlyLive ==
    UNCHANGED <<store, store0, phase, todo, progress_cache, cancellation_flags,
                ffmpeg_processes, worker, proc, outfile, loop, calib, upd,
                response, requests, call, profiles>>

\* `_live_process.poll() is None` of a process that was started
_is_running ==
    live.process # NoProcess /\ live.process \in live.alive

LiveAnswer(op, running, message, code) ==
    [op |-> op, running |-> running, message |-> message, code |-> code]

\* a handler thread of the pool takes a new request (at most MaxLiveRequests)
LiveReceive(t) ==
    /\ live.thread[t] = "idle"
    /\ live.requests < MaxLiveRequests

\* `with _live_lock:` of start_live_stream and stop_live_stream
LiveAcquire(t, op) ==
    /\ LiveReceive(t)
    /\ live.lock = 0
    /\ live' = [live EXCEPT !.lock = t, !.thread[t] = op, !.requests = @ + 1]
    /\ OnlyLive

\* start_live_stream under the lock: _is_running, _clear_live_dir, Popen
start_live_stream(t) ==
    /\ live.thread[t] = "start"
    /\ IF _is_running
       THEN live' = [live EXCEPT !.lock = 0, !.thread[t] = "idle",
                       !.answer = LiveAnswer("start", TRUE, "Live stream already running", 200)]
       ELSE \/ live' = [live EXCEPT !.lock = 0, !.thread[t] = "idle",
                          !.process = live.spawned + 1,
                          !.spawned = @ + 1,
                          !.alive = @ \cup {live.spawned + 1},
                          !.answer = LiveAnswer("start", TRUE, "Live stream started", 200)]
            \/ live' = [live EXCEPT !.lock = 0, !.thread[t] = "idle",
                          !.process = NoProcess,
                          !.answer = LiveAnswer("start", FALSE, "Failed to start live stream", 500)]
    /\ OnlyLive

\* stop_live_stream under the lock: _is_running, the signals, the wait and
\* `finally: _live_process = None`
stop_live_stream(t) ==
    /\ live.thread[t] = "stop"
    /\ IF ~_is_running
       THEN live' = [live EXCEPT !.lock = 0, !.thread[t] = "idle",
                       !.process = NoProcess,
                       !.answer = LiveAnswer("stop", FALSE, "Live stream not running", 200)]
       ELSE live' = [live EXCEPT !.lock = 0, !.thread[t] = "idle",
                       !.process = NoProcess,
                       !.alive = @ \ {live.process},
                       !.answer = LiveAnswer("stop", FALSE, "Live stream stopped", 200)]
    /\ OnlyLive

\* live_status, _is_running up to its last statement: no process or a
\* running one is answered at once; after `poll()` returned an exit code the
\* thread is about to execute `_live_process = None`
live_status(t) ==
    /\ LiveReceive(t)
    /\ IF live.process = NoProcess
       THEN live' = [live EXCEPT !.requests = @ + 1,
                       !.answer = LiveAnswer("status", FALSE, None, 200)]
       ELSE IF _is_running
       THEN live' = [live EXCEPT !.requests = @ + 1,
                       !.answer = LiveAnswer("status", TRUE, None, 200)]
       ELSE live' = [live EXCEPT !.requests = @ + 1, !.thread[t] = "clear"]
    /\ OnlyLive

\* live_status: `_live_process = None` of _is_running, then the response
LiveStatusClear(t) ==
    /\ live.thread[t] = "clear"
    /\ live' = [live EXCEPT !.thread[t] = "idle", !.process = NoProcess,
                  !.answer = LiveAnswer("status", FALSE, None, 200)]
    /\ OnlyLive

\* a live FFmpeg process ends by itself (the UDP input fails, it crashes)
LiveProcessExit ==
    /\ \E p \in live.alive : live' = [live EXCEPT !.alive = @ \ {p}]
    /\ OnlyLive

InitLive ==
    /\ Quiescent
    /\ call = NoCall

NextLive ==
    \/ \E t \in LiveThreads : LiveAcquire(t, "start")
    \/ \E t \in LiveThreads : LiveAcquire(t, "stop")
    \/ \E t \in LiveThreads : start_live_stream(t)
    \/ \E t \in LiveThreads : stop_live_stream(t)
    \/ \E t \in LiveThreads : live_status(t)
    \/ \E t \in LiveThreads : LiveStatusClear(t)
    \/ LiveProcessExit

SpecLive == InitLive /\ [][NextLive]_vars

\* C36: at most one live-stream FFmpeg process exists at any time, under
\* every interleaving of start_live_stream, stop_live_stream and live_status.
C36_AtMostOneLiveProcess == Cardinality(live.alive) <= 1

\* C36, second part: a start while a process is running spawns nothing and
\* reports 'already running'.
C36_StartWhileRunningSpawnsNothing ==
    [][ \A t \in LiveThreads :
          (live.thread[t] = "start" /\ live'.thread[t] = "idle" /\ live.alive # {})
             => /\ live'.spawned = live.spawned
                /\ live'.answer.message = "Live stream already running" ]_vars

\* C36, third part: a process still alive is never dropped from
\* _live_process, except by the stop that ends it.
C36_LiveProcessNeverDropped ==
    [][ _is_running => (live'.process = live.process \/ live.process \notin live'.alive) ]_vars

\* ------------------------------------------- what startup recovery leaves
\* the fields of a record outside `processing`: the inputs, src, params and
\* the calibration results, the transcode metrics
OutsideProcessing(rec) ==
    [left_videos |-> rec.left_videos, right_videos |-> rec.right_videos,
     src |-> rec.src, params |-> rec.params, num_matches |-> rec.num_matches,
     confidence |-> rec.confidence, offset_seconds |-> rec.offset_seconds]

\* C40: startup recovery changes nothing else: when the server starts
\* serving, every match found with a status other than transcoding or
\* calibrating is as it was found, and a recovered match differs from the
\* record found only in its processing fields.
C40_RecoveryChangesOnlyProcessing ==
    (phase = "startup" \/ requests = 0) =>
        \A m \in Matches :
            /\ store0[m] = NoMatch => store[m] = NoMatch
            /\ store0[m] # NoMatch =>
                 /\ store[m] # NoMatch
                 /\ store0[m].status \notin {"transcoding", "calibrating"}
                       => store[m] = store0[m]
                 /\ OutsideProcessing(store[m]) = OutsideProcessing(store0[m])

\* the server starts serving with one match recovered from calibrating, its
\* src and offset kept, and a ready match untouched
C40_Witness ==
    /\ phase = "serving" /\ requests = 0
    /\ store0["m1"] # NoMatch /\ store0["m1"].status = "calibrating"
    /\ store["m1"].status = "error" /\ store["m1"].src = "videos/id.mp4"
    /\ store0["m2"] # NoMatch /\ store0["m2"].status = "ready"
    /\ store["m2"] = store0["m2"]

====
